---- MODULE Spec2Model ----
(***************************************************************************)
(* PlayIt engine: the command broker and the topology calls                *)
(* (engine/src/lib.rs), the playback sequencer                             *)
(* (engine/src/player/sequencer.rs), the media database                    *)
(* (engine/src/player/database.rs) and the IPC server and client           *)
(* (engine/src/ipc/server.rs, engine/src/ipc/client.rs), as one state      *)
(* machine.                                                                *)
(***************************************************************************)
EXTENDS Integers, Sequences, FiniteSets, TLC

(***************************************************************************)
(* Bounds of the exploration.                                              *)
(***************************************************************************)
\* longest canonical queue that add_queue is allowed to build
MaxQueue == 2
\* longest canonical queue built by direct calls of the Sequencer
MaxSeqQueue == 3
\* longest id list carried by one Queue(Some ids) / add_queue(ids)
MaxIds == 2
\* number of peer connections the server accepts in one behaviour
MaxConn == 2
\* longest permission list carried by one SetPermissions
MaxPerms == 1

\* lines the peer writes to its connection in one behaviour
MaxWrites == 2
\* commands the host publishes on the internal bus while the peer is served
MaxInternal == 1
\* capacity of the mpsc command channel (16 in the source), scaled down
ChannelCap == 2
\* capacity of a broadcast channel (16 in the source), scaled down
Capacity == 1
\* engine processes started on the host
MaxProcs == 2

\* recording / playlist ids (keys of the sled trees)
Ids == {"a", "b"}
\* Option::<String>::None
NoId == "-"

(***************************************************************************)
(* Sequences of ids                                                        *)
(***************************************************************************)
SeqsUpTo(S, n) == UNION {[1..k -> S] : k \in 0..n}

Range(q) == {q[i] : i \in 1..Len(q)}

\* Vec::remove(index), index counted from 1 here
RemoveAt(q, k) == [i \in 1..(Len(q) - 1) |-> IF i < k THEN q[i] ELSE q[i + 1]]

\* Iterator::position: first index holding x, 0 when there is none
Position(q, x) ==
    IF x \in Range(q) THEN CHOOSE i \in 1..Len(q) : q[i] = x /\ \A j \in 1..(i - 1) : q[j] # x
    ELSE 0

\* Vec::swap(i, j), indices counted from 1 here
Swap(q, i, j) == [k \in 1..Len(q) |-> IF k = i THEN q[j] ELSE IF k = j THEN q[i] ELSE q[k]]

(***************************************************************************)
(* MediaStore: Database (engine/src/player/database.rs)                    *)
(*                                                                         *)
(* A sled tree is a map from keys to serialized bytes.  A stored value is  *)
(* modelled by what it deserializes to: nothing (absent), a                *)
(* RecordingMetadata (data = "" when audio_file_hash is None, else the     *)
(* kind of bytes the hashed audio file holds) or a PlaylistMetadata (data  *)
(* = its name).                                                            *)
(***************************************************************************)
\* bytes of an uploaded recording: decodable audio, or anything else
Bytes == {"pcm", "junk"}
PlaylistNames == {"n1"}

Absent == [kind |-> "absent", data |-> ""]
RecordingEntry(data) == [kind |-> "recording", data |-> data]
PlaylistEntry(name) == [kind |-> "playlist", data |-> name]

\* get_recording_metadata(id); net: whether the MusicBrainz lookup of an
\* unknown id succeeds.  An unknown id that is fetched is inserted with no
\* audio file; bytes that are no RecordingMetadata fail to deserialize.
get_recording_metadata(db, id, net) ==
    IF db[id].kind = "absent"
    THEN IF net
         THEN [db |-> [db EXCEPT ![id] = RecordingEntry("")], ok |-> TRUE, data |-> ""]
         ELSE [db |-> db, ok |-> FALSE, data |-> ""]
    ELSE IF db[id].kind = "recording"
         THEN [db |-> db, ok |-> TRUE, data |-> db[id].data]
         ELSE [db |-> db, ok |-> FALSE, data |-> ""]

\* get_recording_file(id): Ok(file) only when the metadata names an audio
\* file; data is what the file holds.
get_recording_file(db, id, net) ==
    LET m == get_recording_metadata(db, id, net)
    IN  IF ~m.ok THEN [db |-> m.db, ok |-> FALSE, data |-> ""]
        ELSE IF m.data = "" THEN [db |-> m.db, ok |-> FALSE, data |-> ""]
        ELSE [db |-> m.db, ok |-> TRUE, data |-> m.data]

\* set_recording_file(id, Some(bytes)): silently nothing when the metadata
\* cannot be had.
set_recording_file(db, id, bytes, net) ==
    LET m == get_recording_metadata(db, id, net)
    IN  IF ~m.ok THEN m.db
        ELSE [m.db EXCEPT ![id] = RecordingEntry(bytes)]

\* get_playlist(id) reads the playlist tree
get_playlist(pdb, id) ==
    IF pdb[id].kind = "playlist"
    THEN [ok |-> TRUE, name |-> pdb[id].data]
    ELSE [ok |-> FALSE, name |-> ""]

\* set_playlist(metadata) inserts the serialized playlist into the
\* metadata tree, under the playlist's id (database.rs line 196)
set_playlist(db, id, name) == [db EXCEPT ![id] = PlaylistEntry(name)]

(***************************************************************************)
(* Sequencer (engine/src/player/sequencer.rs)                              *)
(*                                                                         *)
(* A sequencer value is the record of the cells behind the Arc<Mutex<..>>  *)
(* fields.  A handle is either the value Sequencer::new built ("new") or a *)
(* clone of it ("clone"); both reach the same cells, except that the       *)
(* clone's shuffled_queue field refers to the queue cell (line 268).       *)
(*                                                                         *)
(* Every operation returns [seq, db, res, ret]: the cells and the database *)
(* after the call, the outcome and the returned list.  res is "Ok", a      *)
(* SequencerError, "Panic" (the call unwinds) or "Hang" (the call awaits a *)
(* tokio Mutex that the same call already holds, so it never returns).     *)
(***************************************************************************)
Handles == {"new", "clone"}
LoopModes == {"None", "LoopQueue", "LoopRecording"}

Out(seq, db, res, ret) == [seq |-> seq, db |-> db, res |-> res, ret |-> ret]

\* impl Clone for Sequencer: which cell the handle's shuffled_queue field is
ShuffledCellIsQueue(h) == h = "clone"

\* the Vec behind handle h's shuffled_queue field
Shuffled(h, seq) == IF ShuffledCellIsQueue(h) THEN seq.queue ELSE seq.shuffled_queue

\* a write through handle h's shuffled_queue field
SetShuffled(h, seq, v) ==
    IF ShuffledCellIsQueue(h) THEN [seq EXCEPT !.queue = v]
    ELSE [seq EXCEPT !.shuffled_queue = v]

\* Sequencer::new
NewSequencer ==
    [playing |-> NoId, loop_mode |-> "None", shuffle |-> FALSE,
     queue |-> <<>>, shuffled_queue |-> <<>>, song_backlog |-> <<>>,
     paused |-> TRUE, volume |-> 1]

\* shuffle_queue: for i in 0..(len - 2), swap(i, rand % (len - i) + i).
\* draws[i + 1] is the value rand::random gives in iteration i.
RECURSIVE ShuffleLoop(_, _, _, _)
ShuffleLoop(arr, i, end, draws) ==
    IF i >= end THEN arr
    ELSE LET j == (draws[i + 1] % (Len(arr) - i)) + i
         IN  ShuffleLoop(Swap(arr, i + 1, j + 1), i + 1, end, draws)

\* len - 2 on usize with len < 2: a debug build panics on the subtraction, a
\* release build wraps to a huge bound and panics on "% 0" once i = len.
ShufflePanics(queue) == Len(queue) < 2

shuffle_queue(queue, draws) == ShuffleLoop(queue, 0, Len(queue) - 2, draws)

\* the random draws one shuffle of a queue of up to MaxSeqQueue entries can
\* use: every residue of every modulus the loop takes
Draws == [1..(MaxSeqQueue - 2) -> 0..(MaxSeqQueue - 1)]

\* get_playing as it would be if it did not look at the device
get_playing_ignoring_pause(seq) == seq.playing

get_playing(seq) == IF seq.paused THEN NoId ELSE seq.playing

play(seq, db, id, net) ==
    LET f == get_recording_file(db, id, net)
    IN  IF ~f.ok THEN Out(seq, f.db, "MissingAudioFile", <<>>)
        ELSE IF f.data # "pcm" THEN Out(seq, f.db, "DecodingError", <<>>)
        ELSE Out([seq EXCEPT !.paused = FALSE, !.playing = id], f.db, "Ok", <<>>)

pause(seq, db) == Out([seq EXCEPT !.paused = TRUE], db, "Ok", <<>>)

\* seek: dev is whether the sink's try_seek accepts the position
seek(seq, db, dev) == Out(seq, db, IF dev THEN "Ok" ELSE "SeekFailed", <<>>)

\* the LoopMode::None arm as it would be if the canonical queue were left
\* alone when the head comes off the shuffled view
NextNoneKeepingCanonical(h, seq, db, net) ==
    LET view == IF seq.shuffle THEN Shuffled(h, seq) ELSE seq.queue
    IN  IF Len(view) = 0 THEN Out(seq, db, "NoSongsQueued", <<>>)
        ELSE LET song == Head(view)
                 s1 == IF seq.shuffle THEN SetShuffled(h, seq, Tail(view))
                       ELSE [seq EXCEPT !.queue = Tail(view)]
             IN  IF seq.shuffle /\ ShuffledCellIsQueue(h)
                 THEN Out(s1, db, "Hang", <<>>)
                 ELSE play(s1, db, song, net)

\* LoopMode::None arm of next
NextNone(h, seq, db, net) ==
    LET view == IF seq.shuffle THEN Shuffled(h, seq) ELSE seq.queue
    IN  IF Len(view) = 0 THEN Out(seq, db, "NoSongsQueued", <<>>)
        ELSE LET song == Head(view)
                 s1 == IF seq.shuffle THEN SetShuffled(h, seq, Tail(view))
                       ELSE [seq EXCEPT !.queue = Tail(view)]
             IN  IF seq.shuffle /\ ShuffledCellIsQueue(h)
                 THEN \* self.queue.lock() while the guard of the same cell is held
                      Out(s1, db, "Hang", <<>>)
                 ELSE LET k == Position(s1.queue, song)
                          s2 == IF seq.shuffle /\ k > 0
                                THEN [s1 EXCEPT !.queue = RemoveAt(s1.queue, k)]
                                ELSE s1
                      IN  play(s2, db, song, net)

\* the LoopQueue arm as it would be if the head were not pushed back
NextLoopQueueDropping(h, seq, db, net) ==
    IF Len(seq.queue) = 0 THEN Out(seq, db, "NoSongsQueued", <<>>)
    ELSE play([seq EXCEPT !.queue = Tail(seq.queue)], db, Head(seq.queue), net)

\* LoopMode::LoopQueue arm of next
NextLoopQueue(h, seq, db, net) ==
    IF seq.shuffle
    THEN LET view == Shuffled(h, seq)
         IN  IF Len(view) = 0
             THEN IF ShuffledCellIsQueue(h) THEN Out(seq, db, "Hang", <<>>)
                  ELSE IF Len(seq.queue) = 0 THEN Out(seq, db, "NoSongsQueued", <<>>)
                  ELSE \* self.queue.lock() while locked_queue is held
                       Out(seq, db, "Hang", <<>>)
             ELSE play(SetShuffled(h, seq, Tail(view)), db, Head(view), net)
    ELSE IF Len(seq.queue) = 0 THEN Out(seq, db, "NoSongsQueued", <<>>)
         ELSE play([seq EXCEPT !.queue = Tail(seq.queue) \o <<Head(seq.queue)>>],
                   db, Head(seq.queue), net)

\* LoopMode::LoopRecording arm of next: the guard of `playing` taken by the
\* let-else lives to the end of the arm, and play() locks `playing` again
\* once the file is found and decoded.
NextLoopRecording(h, seq, db, net) ==
    IF seq.playing = NoId THEN Out(seq, db, "NothingPlaying", <<>>)
    ELSE LET p == play(seq, db, seq.playing, net)
         IN  IF p.res = "Ok" THEN Out([seq EXCEPT !.paused = FALSE], p.db, "Hang", <<>>)
             ELSE p

next(h, seq, db, net) ==
    CASE seq.loop_mode = "None" -> NextNone(h, seq, db, net)
      [] seq.loop_mode = "LoopQueue" -> NextLoopQueue(h, seq, db, net)
      [] seq.loop_mode = "LoopRecording" -> NextLoopRecording(h, seq, db, net)

previous(h, seq, db, net) ==
    IF Len(seq.song_backlog) = 0 THEN Out(seq, db, "NoSongsPlayed", <<>>)
    ELSE LET song == Head(seq.song_backlog)
             s1 == [seq EXCEPT !.song_backlog = Tail(seq.song_backlog),
                               !.queue = <<song>> \o seq.queue]
             s2 == IF seq.shuffle THEN SetShuffled(h, s1, <<song>> \o Shuffled(h, s1))
                   ELSE s1
         IN  play(s2, db, song, net)

\* the for loop of add_queue over ids[k..]: [db, queued, unplayable]
RECURSIVE AddLoop(_, _, _, _, _, _)
AddLoop(db, ids, k, net, queued, unplayable) ==
    IF k > Len(ids) THEN [db |-> db, queued |-> queued, unplayable |-> unplayable]
    ELSE LET f == get_recording_file(db, ids[k], net)
         IN  IF f.ok THEN AddLoop(f.db, ids, k + 1, net, Append(queued, ids[k]), unplayable)
             ELSE AddLoop(f.db, ids, k + 1, net, queued, Append(unplayable, ids[k]))

\* add_queue as it would be if every id were pushed without asking the
\* database for its file
add_queue_unchecked(h, seq, db, ids, net) ==
    Out([seq EXCEPT !.queue = seq.queue \o ids], db, "Ok", <<>>)

add_queue(h, seq, db, ids, net) ==
    LET l == AddLoop(db, ids, 1, net, <<>>, <<>>)
        s1 == [seq EXCEPT !.queue = seq.queue \o l.queued]
    IN  IF seq.shuffle
        THEN \* self.queue.lock() while locked_queue is held
             Out(s1, l.db, "Hang", <<>>)
        ELSE Out(s1, l.db, "Ok", l.unplayable)

get_queue(h, seq) == IF seq.shuffle THEN Shuffled(h, seq) ELSE seq.queue

\* clear_queue as it would be if only the canonical queue were cleared
clear_queue_canonical(h, seq, db) == Out([seq EXCEPT !.queue = <<>>], db, "Ok", <<>>)

clear_queue(h, seq, db) ==
    Out(SetShuffled(h, [seq EXCEPT !.queue = <<>>], <<>>), db, "Ok", <<>>)

set_loop_mode(seq, db, mode) == Out([seq EXCEPT !.loop_mode = mode], db, "Ok", <<>>)

set_shuffle(h, seq, db, enable, draws) ==
    IF enable
    THEN IF ShufflePanics(seq.queue) THEN Out(seq, db, "Panic", <<>>)
         ELSE IF ShuffledCellIsQueue(h)
              THEN \* the guard of the queue cell, a temporary of the right-hand
                   \* side, is still held when the left-hand side locks it
                   Out(seq, db, "Hang", <<>>)
              ELSE Out([SetShuffled(h, seq, shuffle_queue(seq.queue, draws))
                            EXCEPT !.shuffle = TRUE], db, "Ok", <<>>)
    ELSE Out([SetShuffled(h, seq, <<>>) EXCEPT !.shuffle = FALSE], db, "Ok", <<>>)

set_volume(seq, db, volume) == Out([seq EXCEPT !.volume = volume], db, "Ok", <<>>)

(***************************************************************************)
(* Commands, responses and connection ids (engine/src/lib.rs)              *)
(***************************************************************************)
Permissions == {"Control", "Queue", "Playlist", "Transfer"}

\* Uuid::nil(): the token of the internal bus
Nil == 0
\* the tokens Uuid::new_v4 hands to accepted connections
ConnIds == 1..MaxConn
\* marks a send that is no route_response call and carries no token
NoToken == -1

\* Duration arguments of Seek, f32 arguments of SetVolume
Positions == {5}
Volumes == {2}

\* An EngineCommand: the variant and its payload (flag: the Option is Some,
\* or the bool of ShuffleQueue; n: a Duration or a volume; s: a LoopMode,
\* the bytes of a recording or the name of a playlist).
Cmd(type) ==
    [type |-> type, id |-> NoId, ids |-> <<>>, flag |-> FALSE, n |-> 0, s |-> "",
     perms |-> {}]

PlaySome(id) == [Cmd("Play") EXCEPT !.flag = TRUE, !.id = id]
QueueSome(ids) == [Cmd("Queue") EXCEPT !.flag = TRUE, !.ids = ids]

\* The commands the environment sends: every variant, with the arguments
\* that reach each outcome of its arm (recording "a" is stored with its
\* audio, "b" is the id whose lookup, upload and playlist write are tried).
\* A connection's reader keeps Goodbye to itself.
ExternalCommands ==
    {Cmd("None"), Cmd("Play"), Cmd("Pause"), Cmd("Next"), Cmd("Previous"),
     Cmd("Queue"), Cmd("ClearQueue"), Cmd("GetPermissions")}
    \cup {PlaySome(id) : id \in Ids}
    \cup {[Cmd("Seek") EXCEPT !.n = p] : p \in Positions}
    \cup {QueueSome(ids) : ids \in {q \in SeqsUpTo(Ids, MaxIds) : Len(q) = MaxIds /\ q[1] = "a"}}
    \cup {[Cmd("ShuffleQueue") EXCEPT !.flag = b] : b \in BOOLEAN}
    \cup {[Cmd("LoopMode") EXCEPT !.s = m] : m \in LoopModes}
    \cup {[Cmd("RecordingMetadata") EXCEPT !.id = "b"],
          [Cmd("RecordingFile") EXCEPT !.id = "a"],
          [Cmd("PlaylistMetadata") EXCEPT !.id = "b"]}
    \cup {[Cmd("SendRecording") EXCEPT !.id = "b", !.s = "junk"]}
    \cup {[Cmd("SetPlaylistMetadata") EXCEPT !.id = "b", !.s = n] : n \in PlaylistNames}
    \cup {[Cmd("SetVolume") EXCEPT !.n = v] : v \in Volumes}
    \cup {[Cmd("SetPermissions") EXCEPT !.perms = ps] :
            ps \in {x \in SUBSET Permissions : Cardinality(x) <= MaxPerms}}

InternalCommands == ExternalCommands \cup {Cmd("Goodbye")}

\* An EngineResponse: the variant and its payload, shaped like a command
Resp(r, c) == [r |-> r, c |-> c]
Nope(cmd) == Resp("Nope", cmd)
OkResp(cmd) == Resp("Ok", cmd)
NowPlaying(id) == Resp("NowPlaying", [Cmd("-") EXCEPT !.id = id])
NowPaused == Resp("NowPaused", Cmd("-"))
SeekResp(p) == Resp("Seek", [Cmd("-") EXCEPT !.n = p])
QueueResp(q) == Resp("Queue", [Cmd("-") EXCEPT !.ids = q])
LoopModeResp(m) == Resp("LoopMode", [Cmd("-") EXCEPT !.s = m])
RecordingMetadataResp(id, data) ==
    Resp("RecordingMetadata", [Cmd("-") EXCEPT !.id = id, !.s = data])
RecordingFileResp(id, data) == Resp("RecordingFile", [Cmd("-") EXCEPT !.id = id, !.s = data])
PlaylistMetadataResp(id, name) ==
    Resp("PlaylistMetadata", [Cmd("-") EXCEPT !.id = id, !.s = name])
PermissionsResp(ps) == Resp("Permissions", [Cmd("-") EXCEPT !.perms = ps])

\* One send on a broadcast channel: chan "internal" is engine_response_sender
\* (the internal bus), chan "remote" is the server's response_sender, whose
\* messages carry the token.
Send(chan, resp, uuid) == [chan |-> chan, resp |-> resp, uuid |-> uuid]

\* route_response as it would be if a tagged response were also mirrored on
\* the internal bus
route_response_mirrored(internal, response, uuid) ==
    IF internal THEN <<Send("internal", response, uuid)>>
    ELSE <<Send("internal", response, uuid), Send("remote", response, uuid)>>

\* fn route_response
route_response(internal, response, uuid) ==
    IF internal THEN <<Send("internal", response, uuid)>>
    ELSE IF uuid = Nil
         THEN <<Send("internal", response, uuid), Send("remote", response, uuid)>>
         ELSE <<Send("remote", response, uuid)>>

\* permission_exists as it would be if any held capability were enough
permission_exists_any(permission_array, permission) == permission_array # {}

\* fn permission_exists
permission_exists(permission_array, permission) == permission \in permission_array

\* connection_writer of the server: the filter on the broadcast stream
WriterForwards(sender_connection_id, uuid) ==
    ~(uuid # sender_connection_id /\ uuid # Nil)

(***************************************************************************)
(* Command broker: the task of Engine::start_command_processor             *)
(*                                                                         *)
(* One iteration of the loop is a function of x, the record of what the    *)
(* iteration reads: the command, its token and origin, the sequencer       *)
(* cells, the database trees, the permission list, and the outcomes of the *)
(* collaborators (net: a MusicBrainz lookup succeeds, dev: the sink        *)
(* accepts the seek, draws: the random numbers of a shuffle).  It yields   *)
(* [seq, db, perms, sent, call]: the state after it, the sends it made in  *)
(* order, and the Sequencer/MediaStore operation it invoked.               *)
(***************************************************************************)
\* a call: the operation, its id and id-list arguments, its outcome and the
\* list it returned
NoCall == [op |-> "none", id |-> NoId, ids |-> <<>>, res |-> "Ok", ret |-> <<>>]
Call(op, id, ids, o) == [op |-> op, id |-> id, ids |-> ids, res |-> o.res, ret |-> o.ret]

\* an operation that unwinds or never returns ends the iteration
Stops(res) == res \in {"Panic", "Hang"}

\* the iteration made no call that changes state
Stay(x, sent) ==
    [seq |-> x.seq, db |-> x.db, perms |-> x.perms, sent |-> sent, call |-> NoCall]

\* the iteration made the call `op` with outcome o, then the sends
Returned(x, op, o, sent) ==
    [seq |-> o.seq, db |-> o.db, perms |-> x.perms,
     sent |-> IF Stops(o.res) THEN <<>> ELSE sent,
     call |-> Call(op, x.cmd.id, x.cmd.ids, o)]

\* the permission check that opens every gated arm
Denied(x, permission) ==
    ~x.internal /\ ~permission_exists(x.perms, permission)

\* Deny as it would be if the denial went through route_response with the
\* nil token (broadcast, and mirrored on the internal bus)
DenyBroadcast(x, command) ==
    Stay(x, <<Send("internal", Nope(command), Nil), Send("remote", Nope(command), Nil)>>)

\* the direct send of the denial
Deny(x, command) == Stay(x, <<Send("remote", Nope(command), x.uuid)>>)

\* if let Some(id) = sequencer.get_playing() {NowPlaying(id)} else {NowPaused}
PlayingResp(seq) ==
    IF get_playing(seq) # NoId THEN NowPlaying(get_playing(seq)) ELSE NowPaused

\* the two broadcasts after a successful play, next or previous
NowPlayingAndQueue(x, o) ==
    route_response(x.internal, PlayingResp(o.seq), Nil)
        \o route_response(x.internal, QueueResp(get_queue(x.h, o.seq)), Nil)

ArmNoneGoodbye(x) == Stay(x, route_response(x.internal, OkResp(x.cmd), x.uuid))

ArmPlay(x) ==
    IF ~x.cmd.flag THEN Stay(x, route_response(x.internal, PlayingResp(x.seq), Nil))
    ELSE IF Denied(x, "Control") THEN Deny(x, PlaySome(x.cmd.id))
    ELSE LET o == play(x.seq, x.db, x.cmd.id, x.net)
         IN  Returned(x, "play", o,
                 IF o.res = "Ok" THEN NowPlayingAndQueue(x, o)
                 ELSE route_response(x.internal, Nope(PlaySome(x.cmd.id)), x.uuid))

ArmPause(x) ==
    IF Denied(x, "Control") THEN Deny(x, x.cmd)
    ELSE LET o == pause(x.seq, x.db)
         IN  Returned(x, "pause", o, route_response(x.internal, PlayingResp(o.seq), Nil))

ArmNext(x) ==
    IF Denied(x, "Control") THEN Deny(x, x.cmd)
    ELSE LET o == next(x.h, x.seq, x.db, x.net)
         IN  Returned(x, "next", o,
                 IF o.res = "Ok" THEN NowPlayingAndQueue(x, o)
                 ELSE route_response(x.internal, Nope(Cmd("Next")), x.uuid))

ArmPrevious(x) ==
    IF Denied(x, "Control") THEN Deny(x, x.cmd)
    ELSE LET o == previous(x.h, x.seq, x.db, x.net)
         IN  Returned(x, "previous", o,
                 IF o.res = "Ok" THEN NowPlayingAndQueue(x, o)
                 ELSE route_response(x.internal, Nope(Cmd("Previous")), x.uuid))

ArmSeek(x) ==
    IF Denied(x, "Control") THEN Deny(x, x.cmd)
    ELSE LET o == seek(x.seq, x.db, x.dev)
         IN  Returned(x, "seek", o,
                 IF o.res = "Ok" THEN route_response(x.internal, SeekResp(0), Nil)
                 ELSE route_response(x.internal, Nope([Cmd("Seek") EXCEPT !.n = x.cmd.n]),
                                     x.uuid))

ArmQueue(x) ==
    IF ~x.cmd.flag
    THEN Stay(x, route_response(x.internal, QueueResp(get_queue(x.h, x.seq)), Nil))
    ELSE IF Denied(x, "Queue") THEN Deny(x, QueueSome(x.cmd.ids))
    ELSE LET o == add_queue(x.h, x.seq, x.db, x.cmd.ids, x.net)
         IN  Returned(x, "add_queue", o,
                 (IF Len(o.ret) # 0
                  THEN route_response(x.internal, Nope(QueueSome(o.ret)), x.uuid)
                  ELSE <<>>)
                 \o route_response(x.internal, QueueResp(get_queue(x.h, o.seq)), Nil))

ArmShuffleQueue(x) ==
    IF Denied(x, "Control") THEN Deny(x, x.cmd)
    ELSE LET o == set_shuffle(x.h, x.seq, x.db, x.cmd.flag, x.draws)
         IN  Returned(x, "set_shuffle", o,
                 route_response(x.internal, QueueResp(get_queue(x.h, o.seq)), Nil))

ArmClearQueue(x) ==
    IF Denied(x, "Queue") THEN Deny(x, x.cmd)
    ELSE LET o == clear_queue(x.h, x.seq, x.db)
         IN  Returned(x, "clear_queue", o, route_response(x.internal, QueueResp(<<>>), Nil))

ArmLoopMode(x) ==
    IF Denied(x, "Control") THEN Deny(x, [Cmd("LoopMode") EXCEPT !.s = x.cmd.s])
    ELSE LET o == set_loop_mode(x.seq, x.db, x.cmd.s)
         IN  Returned(x, "set_loop_mode", o,
                 route_response(x.internal, LoopModeResp(x.cmd.s), Nil))

ArmRecordingMetadata(x) ==
    LET m == get_recording_metadata(x.db, x.cmd.id, x.net)
        o == Out(x.seq, m.db, IF m.ok THEN "Ok" ELSE "Err", <<>>)
    IN  Returned(x, "get_recording_metadata", o,
            IF m.ok
            THEN route_response(x.internal, RecordingMetadataResp(x.cmd.id, m.data), x.uuid)
            ELSE route_response(x.internal,
                     Nope([Cmd("RecordingMetadata") EXCEPT !.id = x.cmd.id]), x.uuid))

\* the RecordingFile arm as it would be if it asked for Transfer first
ArmRecordingFileGated(x) ==
    IF Denied(x, "Transfer") THEN Deny(x, [Cmd("RecordingFile") EXCEPT !.id = x.cmd.id])
    ELSE LET f == get_recording_file(x.db, x.cmd.id, x.net)
             o == Out(x.seq, f.db, IF f.ok THEN "Ok" ELSE "Err", <<>>)
         IN  Returned(x, "get_recording_file", o,
                 IF f.ok
                 THEN route_response(x.internal, RecordingFileResp(x.cmd.id, f.data), x.uuid)
                 ELSE route_response(x.internal,
                          Nope([Cmd("RecordingFile") EXCEPT !.id = x.cmd.id]), x.uuid))

ArmRecordingFile(x) ==
    LET f == get_recording_file(x.db, x.cmd.id, x.net)
        o == Out(x.seq, f.db, IF f.ok THEN "Ok" ELSE "Err", <<>>)
    IN  Returned(x, "get_recording_file", o,
            IF f.ok
            THEN route_response(x.internal, RecordingFileResp(x.cmd.id, f.data), x.uuid)
            ELSE route_response(x.internal,
                     Nope([Cmd("RecordingFile") EXCEPT !.id = x.cmd.id]), x.uuid))

ArmSendRecording(x) ==
    IF Denied(x, "Transfer")
    THEN Deny(x, [Cmd("SendRecording") EXCEPT !.id = x.cmd.id, !.s = x.cmd.s])
    ELSE LET o == Out(x.seq, set_recording_file(x.db, x.cmd.id, x.cmd.s, x.net), "Ok", <<>>)
         IN  Returned(x, "set_recording_file", o,
                 route_response(x.internal,
                     OkResp([Cmd("SendRecording") EXCEPT !.id = x.cmd.id, !.s = x.cmd.s]),
                     x.uuid))

ArmPlaylistMetadata(x) ==
    LET g == get_playlist(x.pdb, x.cmd.id)
        o == Out(x.seq, x.db, IF g.ok THEN "Ok" ELSE "Err", <<>>)
    IN  Returned(x, "get_playlist", o,
            IF g.ok
            THEN route_response(x.internal, PlaylistMetadataResp(x.cmd.id, g.name), x.uuid)
            ELSE route_response(x.internal,
                     Nope([Cmd("PlaylistMetadata") EXCEPT !.id = x.cmd.id]), x.uuid))

ArmSetPlaylistMetadata(x) ==
    IF Denied(x, "Playlist")
    THEN Deny(x, [Cmd("SetPlaylistMetadata") EXCEPT !.id = x.cmd.id, !.s = x.cmd.s])
    ELSE LET o == Out(x.seq, set_playlist(x.db, x.cmd.id, x.cmd.s), "Ok", <<>>)
         IN  Returned(x, "set_playlist", o,
                 route_response(x.internal, PlaylistMetadataResp(x.cmd.id, x.cmd.s), Nil))

\* the SetVolume arm as it would be if the volume were set for every origin
ArmSetVolumeAnyOrigin(x) ==
    Returned(x, "set_volume", set_volume(x.seq, x.db, x.cmd.n), <<>>)

ArmSetVolume(x) ==
    IF x.internal THEN Returned(x, "set_volume", set_volume(x.seq, x.db, x.cmd.n), <<>>)
    ELSE Stay(x, <<>>)

\* the GetPermissions arm as it would be if it reported the current list
ArmGetPermissionsCurrent(x) ==
    IF x.internal
    THEN Stay(x, <<Send("internal", PermissionsResp(x.perms), NoToken)>>)
    ELSE Stay(x, <<Send("remote", PermissionsResp(x.perms), x.uuid)>>)

ArmGetPermissions(x) ==
    IF x.internal
    THEN Stay(x, <<Send("internal", PermissionsResp(Permissions), NoToken)>>)
    ELSE Stay(x, <<Send("remote", PermissionsResp({}), x.uuid)>>)

\* the SetPermissions arm as it would be if it took the list from any origin
ArmSetPermissionsAnyOrigin(x) ==
    [Stay(x, IF x.internal
             THEN <<Send("internal", PermissionsResp(x.cmd.perms), NoToken)>>
             ELSE <<Send("remote", PermissionsResp(x.cmd.perms), x.uuid)>>)
        EXCEPT !.perms = x.cmd.perms]

ArmSetPermissions(x) ==
    IF x.internal
    THEN [Stay(x, <<Send("internal", PermissionsResp(x.cmd.perms), NoToken)>>)
             EXCEPT !.perms = x.cmd.perms]
    ELSE Stay(x, <<Send("remote", Nope(x.cmd), x.uuid)>>)

\* match command { ... }
Dispatch(x) ==
    CASE x.cmd.type \in {"None", "Goodbye"} -> ArmNoneGoodbye(x)
      [] x.cmd.type = "Play" -> ArmPlay(x)
      [] x.cmd.type = "Pause" -> ArmPause(x)
      [] x.cmd.type = "Next" -> ArmNext(x)
      [] x.cmd.type = "Previous" -> ArmPrevious(x)
      [] x.cmd.type = "Seek" -> ArmSeek(x)
      [] x.cmd.type = "Queue" -> ArmQueue(x)
      [] x.cmd.type = "ShuffleQueue" -> ArmShuffleQueue(x)
      [] x.cmd.type = "ClearQueue" -> ArmClearQueue(x)
      [] x.cmd.type = "LoopMode" -> ArmLoopMode(x)
      [] x.cmd.type = "RecordingMetadata" -> ArmRecordingMetadata(x)
      [] x.cmd.type = "RecordingFile" -> ArmRecordingFile(x)
      [] x.cmd.type = "SendRecording" -> ArmSendRecording(x)
      [] x.cmd.type = "PlaylistMetadata" -> ArmPlaylistMetadata(x)
      [] x.cmd.type = "SetPlaylistMetadata" -> ArmSetPlaylistMetadata(x)
      [] x.cmd.type = "SetVolume" -> ArmSetVolume(x)
      [] x.cmd.type = "GetPermissions" -> ArmGetPermissions(x)
      [] x.cmd.type = "SetPermissions" -> ArmSetPermissions(x)

(***************************************************************************)
(* State                                                                   *)
(***************************************************************************)
VARIABLES
    sequencer,                 \* the cells of the Sequencer (shared by its clones)
    metadata_db,               \* Database::metadata_db, key -> stored value
    playlist_db,               \* Database::playlist_db, key -> stored value
    handle,                    \* the Sequencer value the caller holds: "new" or "clone"
    call,                      \* the last Sequencer/MediaStore call and its outcome
    command_processor,         \* the broker task: "running", "panicked" or "hung"
    current_user_permissions,  \* the broker's permission list
    last,                      \* (command, uuid, internal) of the last iteration
    sent,                      \* the sends of the last iteration, in order
    wire,                      \* what the live connection's writer forwards of them
    connection,                \* id of the connection being served, Nil when none
    accepted,                  \* number of connections accepted so far
    connection_reader,         \* its reader task: "none", "running" or "finished"
    to_server,                 \* the bytes the peer has written to the connection
    server_pos,                \* how many of them the server's reader has read
    command_channel,           \* the mpsc channel from the readers to the broker
    dispatched,                \* the commands the broker has taken, with their sends
    response_channel,          \* every message sent on the server's response channel
    internal_bus,              \* every message sent on the internal response bus
    cursor,                    \* per consumer: how far it is in its broadcast channel
    delivered,                 \* per consumer: positions of the messages recv gave it
    to_client,                 \* the bytes the server's writer has written
    client_pos,                \* how many of them the client's reader has read
    client_lines,              \* what the client's reader made of each line it read
    phase,                     \* per process: "absent", "idle" or "installing"
    location,                  \* per process: the variant of Engine::location
    link,                      \* per process: the server its ipc_client is connected to
    pending,                   \* per process: the variant a connect call is about to install
    tasks,                     \* per process: the broker/relay tasks not yet torn down
    listener,                  \* the listener bound to "playit.sock" on the host
    ipc_client,                \* per process: the IPCClient its location holds
    dropped_client,            \* per process: the IPCClient it dropped last
    remote_device_permissions, \* the relay's permission list
    response_receiver,         \* the mpsc channel from the client's reader to the relay
    relay_last,                \* what the relay's last turn took from which channel
    returned                   \* the early return of a connect call in the host's last step

vars ==
    <<sequencer, metadata_db, playlist_db, handle, call, command_processor,
      current_user_permissions, last, sent, wire, connection, accepted,
      connection_reader,
      to_server, server_pos, command_channel, dispatched, response_channel,
      internal_bus, cursor, delivered, to_client, client_pos, client_lines,
      phase, location, link, pending, tasks, listener, ipc_client, dropped_client,
      remote_device_permissions, response_receiver, relay_last, returned>>

seq_vars == <<sequencer, metadata_db, playlist_db, handle, call>>
broker_vars == <<command_processor, current_user_permissions, last, sent, wire>>
conn_vars == <<connection, accepted, connection_reader>>
wire_vars ==
    <<to_server, server_pos, command_channel, dispatched, response_channel,
      internal_bus, cursor, delivered, to_client, client_pos, client_lines>>
client_vars == <<ipc_client, dropped_client>>
relay_vars == <<remote_device_permissions, response_receiver, relay_last>>
host_vars ==
    <<phase, location, link, pending, tasks, listener, client_vars, relay_vars,
      returned>>
ipc_vars == <<wire_vars, host_vars>>

\* the consumers of the two broadcast channels: the writer of the connection
\* (response channel of the server) and the host's receiver (internal bus)
Consumers == {"writer", "host"}

\* nothing written, sent or read yet
WireIdle ==
    /\ to_server = <<>>
    /\ server_pos = 0
    /\ command_channel = <<>>
    /\ dispatched = <<>>
    /\ response_channel = <<>>
    /\ internal_bus = <<>>
    /\ cursor = [c \in Consumers |-> 0]
    /\ delivered = [c \in Consumers |-> <<>>]
    /\ to_client = <<>>
    /\ client_pos = 0
    /\ client_lines = <<>>

\* the engine processes of the host, and the peer a connect_to_remote
\* reaches; NoProc where there is no process
Procs == 1..MaxProcs
NoProc == 0
Peer == MaxProcs + 1

\* the task an EngineLocation variant holds: the broker for Internal, a
\* relay for Local and Remote
TaskOf(variant) ==
    IF variant = "Internal" THEN "command_processor" ELSE "command_relay"

\* a broker or relay task and where it stands ("new": spawned by the
\* connect call in progress; "current": held by self.location; "aborted":
\* abort() called, not yet torn down by the runtime)
Task(kind, state) == [kind |-> kind, state |-> state]

\* the first process still has a broker task: one that holds the receiver
\* of the server's command channel
BrokerTask == \E t \in tasks[1] : t.kind = "command_processor"

\* the broker's receiver of the command channel is dropped: the task has
\* unwound or has been torn down, and a reader's send fails
ReceiverDropped == command_processor = "panicked" \/ ~BrokerTask

NoPending == [location |-> "Invalid", link |-> NoProc]
NoListener == [owner |-> NoProc, aborted |-> FALSE]

\* an IPCClient: its outbound command queue (the mpsc channel its writer
\* receives from) and its connection_reader and connection_writer tasks,
\* "none" where there is no client
Client(queue, reader, writer) == [queue |-> queue, reader |-> reader, writer |-> writer]
NoClient == Client(<<>>, "none", "none")
\* IPCClient::create: the queue is empty and both tasks are spawned
NewClient == Client(<<>>, "running", "running")

\* what a relay's turn took: arm "response" or "command", none is whether
\* recv gave None, and the item
Turn(arm, none, item) == [arm |-> arm, none |-> none, item |-> item]
NoTurn == Turn("-", FALSE, Cmd("-"))

\* Engine::start_command_relay up to the first turn of its loop: the
\* permission list is empty, nothing waits in the response channel
\* a connect call of process p that returned the result before its
\* take_mut::take
Return(p, result) == [proc |-> p, result |-> result]

\* the host's last step was no such return
NoReturn == Return(0, "-")

RelayIdle ==
    /\ remote_device_permissions = {}
    /\ response_receiver = <<>>
    /\ relay_last = NoTurn

\* the first process has run Engine::create on a host where the endpoint
\* was free: it is the server, its broker is running
HostServing ==
    /\ phase = [p \in Procs |-> IF p = 1 THEN "idle" ELSE "absent"]
    /\ location = [p \in Procs |-> IF p = 1 THEN "Internal" ELSE "Invalid"]
    /\ link = [p \in Procs |-> NoProc]
    /\ pending = [p \in Procs |-> NoPending]
    /\ tasks = [p \in Procs |-> IF p = 1 THEN {Task(TaskOf("Internal"), "current")} ELSE {}]
    /\ listener = [owner |-> 1, aborted |-> FALSE]
    /\ ipc_client = [p \in Procs |-> NoClient]
    /\ dropped_client = [p \in Procs |-> NoClient]
    /\ RelayIdle
    /\ returned = NoReturn

NoLast == [cmd |-> Cmd("-"), uuid |-> Nil, internal |-> TRUE]
NoWire == [to |-> Nil, msgs |-> <<>>]

\* what the trees hold when the process starts: each recording is unknown
\* or already stored with its audio; no code path writes the playlist tree
InitDb ==
    /\ metadata_db = [id \in Ids |-> IF id = "a" THEN RecordingEntry("pcm") ELSE Absent]
    /\ playlist_db = [id \in Ids |-> Absent]

InitCommon ==
    /\ sequencer = NewSequencer
    /\ InitDb
    /\ call = NoCall
    /\ command_processor = "running"
    /\ current_user_permissions = {}
    /\ last = NoLast
    /\ sent = <<>>
    /\ wire = NoWire
    /\ connection = Nil
    /\ accepted = 0
    /\ connection_reader = "none"
    /\ WireIdle
    /\ HostServing

\* Engine::start_command_processor hands the task self.sequencer.clone()
Init == InitCommon /\ handle = "clone"

(***************************************************************************)
(* Connections of the IPC server (engine/src/ipc/server.rs)                *)
(***************************************************************************)
\* The broker is between two iterations.  The loop body has no await after
\* its last send, and the step that ends an iteration changes nothing a
\* connection task reads, so the connection steps are taken at this point.
AtSelect == last = NoLast \/ command_processor # "running"

\* the accept loop awaits the reader of the connection it accepted before it
\* accepts again, so one connection is served at a time
AcceptConnection ==
    /\ AtSelect
    /\ connection = Nil
    /\ accepted < MaxConn
    /\ connection' = accepted + 1
    /\ accepted' = accepted + 1
    /\ connection_reader' = "running"
    /\ UNCHANGED <<seq_vars, broker_vars, ipc_vars>>

\* the reader reads Goodbye or an empty line and breaks; the writer is aborted
CloseConnection ==
    /\ AtSelect
    /\ connection # Nil
    /\ connection' = Nil
    /\ connection_reader' = "none"
    /\ UNCHANGED <<accepted, seq_vars, broker_vars, ipc_vars>>

\* the messages of `sends` that the writer of connection c puts on its stream
Forwarded(c, sends) ==
    SelectSeq(sends, LAMBDA m : m.chan = "remote" /\ WriterForwards(c, m.uuid))

(***************************************************************************)
(* The broker loop                                                         *)
(***************************************************************************)
UsesNet(cmd) ==
    \/ cmd.type \in {"Next", "Previous", "RecordingMetadata", "RecordingFile",
                     "SendRecording"}
    \/ cmd.type \in {"Play", "Queue"} /\ cmd.flag

NetChoices(cmd) == IF UsesNet(cmd) THEN BOOLEAN ELSE {FALSE}
DevChoices(cmd) == IF cmd.type = "Seek" THEN BOOLEAN ELSE {TRUE}
DrawChoices(cmd) ==
    IF cmd.type = "ShuffleQueue" /\ cmd.flag THEN Draws
    ELSE {[i \in 1..(MaxSeqQueue - 2) |-> 0]}

\* the queue is kept within the explored length
WithinBounds(cmd) ==
    cmd.type = "Queue" /\ cmd.flag => Len(sequencer.queue) + Len(cmd.ids) <= MaxQueue

Iteration(cmd, uuid, internal) ==
    /\ command_processor = "running"
    /\ last = NoLast
    /\ WithinBounds(cmd)
    /\ \E net \in NetChoices(cmd), dev \in DevChoices(cmd), draws \in DrawChoices(cmd) :
         LET x == [cmd |-> cmd, uuid |-> uuid, internal |-> internal, h |-> handle,
                   seq |-> sequencer, db |-> metadata_db, pdb |-> playlist_db,
                   perms |-> current_user_permissions,
                   net |-> net, dev |-> dev, draws |-> draws]
         IN  \E r \in {Dispatch(x)} :
             /\ sequencer' = r.seq
             /\ metadata_db' = r.db
             /\ current_user_permissions' = r.perms
             /\ call' = r.call
             /\ sent' = r.sent
             /\ wire' = IF connection = Nil THEN NoWire
                        ELSE [to |-> connection, msgs |-> Forwarded(connection, r.sent)]
             /\ command_processor' =
                    IF r.call.res = "Panic" THEN "panicked"
                    ELSE IF r.call.res = "Hang" THEN "hung" ELSE "running"
             /\ last' = [cmd |-> cmd, uuid |-> uuid, internal |-> internal]
    /\ UNCHANGED <<playlist_db, handle, conn_vars>>

\* val = internal_command_receiver.recv()
ProcessInternal ==
    /\ \E cmd \in InternalCommands : Iteration(cmd, Nil, TRUE)
    /\ UNCHANGED ipc_vars

\* val = command_receiver.recv(): a command some accepted connection's reader
\* forwarded; the connection may have closed since
ProcessExternal ==
    /\ \E cmd \in ExternalCommands, uuid \in 1..accepted : Iteration(cmd, uuid, FALSE)
    /\ UNCHANGED ipc_vars

\* the end of the loop body: the iteration's locals are dropped and the task
\* is back at the select
EndIteration ==
    /\ command_processor = "running"
    /\ last # NoLast
    /\ last' = NoLast
    /\ sent' = <<>>
    /\ wire' = NoWire
    /\ call' = NoCall
    /\ UNCHANGED <<sequencer, metadata_db, playlist_db, handle, command_processor,
                   current_user_permissions, conn_vars, ipc_vars>>

Next ==
    \/ AcceptConnection
    \/ CloseConnection
    \/ ProcessInternal
    \/ ProcessExternal
    \/ EndIteration

Spec == Init /\ [][Next]_vars

(***************************************************************************)
(* The Sequencer called directly: any sequence of its operations on one    *)
(* Sequencer value, the one Sequencer::new returns or a clone of it.       *)
(***************************************************************************)
SeqInit ==
    /\ sequencer = NewSequencer
    /\ metadata_db \in [Ids -> {Absent, RecordingEntry("pcm"), RecordingEntry("junk")}]
    /\ playlist_db = [id \in Ids |-> Absent]
    /\ handle \in Handles
    /\ call = NoCall
    /\ command_processor = "running"
    /\ current_user_permissions = {}
    /\ last = NoLast
    /\ sent = <<>>
    /\ wire = NoWire
    /\ connection = Nil
    /\ accepted = 0
    /\ connection_reader = "none"
    /\ WireIdle
    /\ HostServing

\* the caller makes the call `op` with arguments id, ids; o is its outcome
Called(op, id, ids, o) ==
    /\ call = NoCall
    /\ sequencer' = o.seq
    /\ metadata_db' = o.db
    /\ call' = Call(op, id, ids, o)
    /\ UNCHANGED <<playlist_db, handle, broker_vars, conn_vars, ipc_vars>>

SeqPlay ==
    \E id \in Ids, net \in BOOLEAN :
        Called("play", id, <<>>, play(sequencer, metadata_db, id, net))

SeqPause == Called("pause", NoId, <<>>, pause(sequencer, metadata_db))

SeqSeek == \E dev \in BOOLEAN : Called("seek", NoId, <<>>, seek(sequencer, metadata_db, dev))

SeqNext ==
    \E net \in BOOLEAN : Called("next", NoId, <<>>, next(handle, sequencer, metadata_db, net))

SeqPrevious ==
    \E net \in BOOLEAN :
        Called("previous", NoId, <<>>, previous(handle, sequencer, metadata_db, net))

SeqAddQueue ==
    \E ids \in SeqsUpTo(Ids, MaxIds), net \in BOOLEAN :
        /\ Len(sequencer.queue) + Len(ids) <= MaxSeqQueue
        /\ Called("add_queue", NoId, ids, add_queue(handle, sequencer, metadata_db, ids, net))

SeqClearQueue == Called("clear_queue", NoId, <<>>, clear_queue(handle, sequencer, metadata_db))

SeqSetLoopMode ==
    \E mode \in LoopModes :
        Called("set_loop_mode", NoId, <<>>, set_loop_mode(sequencer, metadata_db, mode))

SeqSetShuffle ==
    \E enable \in BOOLEAN, draws \in Draws :
        Called("set_shuffle", NoId, <<>>,
               set_shuffle(handle, sequencer, metadata_db, enable, draws))

\* the call returned (or unwound) and the caller goes on; a call that
\* hangs never gets here
SeqReturn ==
    /\ call # NoCall
    /\ ~(call.res = "Hang")
    /\ call' = NoCall
    /\ UNCHANGED <<sequencer, metadata_db, playlist_db, handle, broker_vars, conn_vars,
                   ipc_vars>>

SeqNext_ ==
    \/ SeqPlay
    \/ SeqPause
    \/ SeqSeek
    \/ SeqNext
    \/ SeqPrevious
    \/ SeqAddQueue
    \/ SeqClearQueue
    \/ SeqSetLoopMode
    \/ SeqSetShuffle
    \/ SeqReturn

SeqSpec == SeqInit /\ [][SeqNext_]_vars

(***************************************************************************)
(* One connection end to end: the peer's bytes, the server's reader, the   *)
(* command channel, the broker, the two broadcast channels, the server's   *)
(* writer and the client's reader (engine/src/ipc/server.rs, client.rs).   *)
(*                                                                         *)
(* A byte stream is a sequence of tokens: the JSON text of one record      *)
(* (serde_json never emits a raw newline inside it), a newline byte, bytes *)
(* that are no JSON text, and the end of the stream.  A BufWriter hands    *)
(* its bytes on in the order they were written, so a stream here is what   *)
(* was written to it.                                                      *)
(***************************************************************************)
Newline == [kind |-> "nl"]
Junk == [kind |-> "junk"]
Eof == [kind |-> "eof"]
Json(m) == [kind |-> "json", m |-> m]

\* serde_json::to_vec(&command), serde_json::to_string(&response)
to_vec(command) == <<Json(command)>>
to_string(response) == <<Json(response)>>

\* connection_writer of the client: message.push(b'\n'); write_all(&message)
ClientFrame(command) == to_vec(command) \o <<Newline>>

\* connection_writer of the server: write_all(message.as_bytes())
ServerFrame(response) == to_string(response)

\* index of the first newline or end of stream after pos, 0 when none is there
LineEnd(bytes, pos) ==
    LET ends == {i \in (pos + 1)..Len(bytes) : bytes[i] \in {Newline, Eof}}
    IN  IF ends = {} THEN 0 ELSE CHOOSE i \in ends : \A j \in ends : i <= j

\* read_line returns: a newline or the end of the stream has arrived
CanReadLine(bytes, pos) == LineEnd(bytes, pos) # 0

\* BufRead::read_line: the bytes up to and including the newline, or up to
\* the end of the stream
read_line(bytes, pos) ==
    LET e == LineEnd(bytes, pos)
    IN  IF bytes[e] = Newline
        THEN [buffer |-> SubSeq(bytes, pos + 1, e), pos |-> e]
        ELSE [buffer |-> SubSeq(bytes, pos + 1, e - 1), pos |-> e - 1]

\* serde_json::from_str: one JSON text, white space (the newline) allowed
\* after it
from_str(buffer) ==
    LET n == Len(buffer)
        body == IF n > 0 /\ buffer[n] = Newline THEN SubSeq(buffer, 1, n - 1) ELSE buffer
    IN  IF Len(body) = 1 /\ body[1].kind = "json"
        THEN [ok |-> TRUE, m |-> body[1].m]
        ELSE [ok |-> FALSE, m |-> Cmd("-")]

\* what the peer and the host send while one connection is followed
WireCommands == {Cmd("None"), Cmd("Pause"), Cmd("Goodbye")}
WireInternalCommands ==
    {Cmd("Pause"), [Cmd("SetPermissions") EXCEPT !.perms = {"Control"}],
     [Cmd("ShuffleQueue") EXCEPT !.flag = TRUE]}

\* the peer has not closed its stream and may write one more line
PeerMayWrite ==
    /\ Eof \notin Range(to_server)
    /\ Cardinality({i \in 1..Len(to_server) : to_server[i] = Newline}) < MaxWrites

\* connection_writer of the client writes one command
ClientWriter ==
    /\ AtSelect
    /\ PeerMayWrite
    /\ \E command \in WireCommands : to_server' = to_server \o ClientFrame(command)
    /\ UNCHANGED <<host_vars, seq_vars, broker_vars, conn_vars, server_pos, command_channel,
                   dispatched, response_channel, internal_bus, cursor, delivered,
                   to_client, client_pos, client_lines>>

\* a peer that is no IPCClient writes a line that is no Command
PeerInjects ==
    /\ AtSelect
    /\ PeerMayWrite
    /\ to_server' = to_server \o <<Junk, Newline>>
    /\ UNCHANGED <<host_vars, seq_vars, broker_vars, conn_vars, server_pos, command_channel,
                   dispatched, response_channel, internal_bus, cursor, delivered,
                   to_client, client_pos, client_lines>>

\* the peer closes its stream
PeerCloses ==
    /\ AtSelect
    /\ Eof \notin Range(to_server)
    /\ to_server' = Append(to_server, Eof)
    /\ UNCHANGED <<host_vars, seq_vars, broker_vars, conn_vars, server_pos, command_channel,
                   dispatched, response_channel, internal_bus, cursor, delivered,
                   to_client, client_pos, client_lines>>

\* the channel as it would be if a sent item overtook those queued before it
mpsc_send_front(channel, item) == <<item>> \o channel

\* mpsc::Sender::send: the item joins the queue behind those already in it
mpsc_send(channel, item) == Append(channel, item)

\* the reader as it would be if a line that is no Command ended it
ConnectionReaderStrict ==
    /\ AtSelect
    /\ connection_reader = "running"
    /\ CanReadLine(to_server, server_pos)
    /\ LET r == read_line(to_server, server_pos)
           p == from_str(r.buffer)
       IN  /\ server_pos' = r.pos
           /\ IF ~p.ok \/ p.m.type = "Goodbye"
              THEN /\ connection_reader' = "finished"
                   /\ UNCHANGED command_channel
              ELSE /\ UNCHANGED connection_reader
                   /\ IF ReceiverDropped
                      THEN UNCHANGED command_channel
                      ELSE /\ Len(command_channel) < ChannelCap
                           /\ command_channel' =
                                  mpsc_send(command_channel,
                                            [cmd |-> p.m, uuid |-> connection])
    /\ UNCHANGED <<host_vars, seq_vars, broker_vars, connection, accepted, to_server,
                   dispatched, response_channel, internal_bus, cursor, delivered,
                   to_client, client_pos, client_lines>>

\* One turn of the loop of the server's connection_reader.  An empty read
\* or Goodbye breaks and the task is finished; a line that is no Command is
\* skipped;
\* any other command is sent to the broker, which waits while the channel
\* is full and fails at once when the broker's receiver is gone.
ConnectionReader ==
    /\ AtSelect
    /\ connection_reader = "running"
    /\ CanReadLine(to_server, server_pos)
    /\ LET r == read_line(to_server, server_pos)
           p == from_str(r.buffer)
       IN  /\ server_pos' = r.pos
           /\ IF r.buffer = <<>> \/ (p.ok /\ p.m.type = "Goodbye")
              THEN /\ connection_reader' = "finished"
                   /\ UNCHANGED command_channel
              ELSE /\ UNCHANGED connection_reader
                   /\ IF ~p.ok \/ ReceiverDropped
                      THEN UNCHANGED command_channel
                      ELSE /\ Len(command_channel) < ChannelCap
                           /\ command_channel' =
                                  mpsc_send(command_channel,
                                            [cmd |-> p.m, uuid |-> connection])
    /\ UNCHANGED <<host_vars, seq_vars, broker_vars, connection, accepted, to_server,
                   dispatched, response_channel, internal_bus, cursor, delivered,
                   to_client, client_pos, client_lines>>

\* The accept loop, resumed by the end of the reader it awaits, aborts the
\* writer; the writer waits in recv between two turns, so it takes no
\* further turn.  Both halves of the stream are dropped and the loop is
\* back at accept.
AbortWriter ==
    /\ AtSelect
    /\ connection_reader = "finished"
    /\ connection' = Nil
    /\ connection_reader' = "none"
    /\ to_client' = Append(to_client, Eof)
    /\ UNCHANGED <<host_vars, seq_vars, broker_vars, accepted, to_server, server_pos,
                   command_channel, dispatched, response_channel, internal_bus,
                   cursor, delivered, client_pos, client_lines>>

\* the iteration's sends reach the two broadcast channels in order
Publish(cmd, uuid, internal) ==
    /\ dispatched' = Append(dispatched, [cmd |-> cmd, uuid |-> uuid,
                                         internal |-> internal, sends |-> sent'])
    /\ response_channel' =
           response_channel \o SelectSeq(sent', LAMBDA m : m.chan = "remote")
    /\ internal_bus' = internal_bus \o SelectSeq(sent', LAMBDA m : m.chan = "internal")

\* val = command_receiver.recv(): the broker takes the oldest queued command
TakeExternal ==
    /\ command_channel # <<>>
    /\ LET head == Head(command_channel)
       IN  /\ Iteration(head.cmd, head.uuid, FALSE)
           /\ Publish(head.cmd, head.uuid, FALSE)
    /\ command_channel' = Tail(command_channel)
    /\ UNCHANGED <<host_vars, to_server, server_pos, cursor, delivered, to_client, client_pos,
                   client_lines>>

\* val = internal_command_receiver.recv()
TakeInternal ==
    /\ Cardinality({i \in 1..Len(dispatched) : dispatched[i].internal}) < MaxInternal
    /\ \E cmd \in WireInternalCommands :
          /\ Iteration(cmd, Nil, TRUE)
          /\ Publish(cmd, Nil, TRUE)
    /\ UNCHANGED <<host_vars, to_server, server_pos, command_channel, cursor, delivered, to_client,
                   client_pos, client_lines>>

\* the position after a lag as it would be if the receiver dropped the
\* retained messages too
NewestOnly(channel) == Len(channel)

\* broadcast::Receiver::recv of a receiver that has seen `seen` messages of
\* the channel: Err(Lagged) when more than Capacity messages wait, and the
\* receiver then stands at the oldest message still retained
Lagged(channel, seen) == Len(channel) - seen > Capacity

OldestRetained(channel) == Len(channel) - Capacity

\* the writer as it would be if it went on after the reader's end: it is not
\* aborted and still holds its half of the stream
ConnectionWriterDetached ==
    /\ AtSelect
    /\ cursor["writer"] < Len(response_channel)
    /\ IF Lagged(response_channel, cursor["writer"])
       THEN /\ cursor' = [cursor EXCEPT !["writer"] = OldestRetained(response_channel)]
            /\ UNCHANGED <<delivered, to_client>>
       ELSE LET k == cursor["writer"] + 1
                m == response_channel[k]
            IN  /\ cursor' = [cursor EXCEPT !["writer"] = k]
                /\ delivered' = [delivered EXCEPT !["writer"] = Append(@, k)]
                /\ to_client' = IF WriterForwards(accepted, m.uuid)
                                THEN to_client \o ServerFrame(m.resp)
                                ELSE to_client
    /\ UNCHANGED <<host_vars, seq_vars, broker_vars, conn_vars, to_server, server_pos,
                   command_channel, dispatched, response_channel, internal_bus,
                   client_pos, client_lines>>

\* One turn of the loop of the server's connection_writer: recv, `continue`
\* on an error, the filter on the token, then the write.
ConnectionWriter ==
    /\ AtSelect
    /\ connection # Nil
    /\ cursor["writer"] < Len(response_channel)
    /\ IF Lagged(response_channel, cursor["writer"])
       THEN /\ cursor' = [cursor EXCEPT !["writer"] = OldestRetained(response_channel)]
            /\ UNCHANGED <<delivered, to_client>>
       ELSE LET k == cursor["writer"] + 1
                m == response_channel[k]
            IN  /\ cursor' = [cursor EXCEPT !["writer"] = k]
                /\ delivered' = [delivered EXCEPT !["writer"] = Append(@, k)]
                /\ to_client' = IF WriterForwards(connection, m.uuid)
                                THEN to_client \o ServerFrame(m.resp)
                                ELSE to_client
    /\ UNCHANGED <<host_vars, seq_vars, broker_vars, conn_vars, to_server, server_pos,
                   command_channel, dispatched, response_channel, internal_bus,
                   client_pos, client_lines>>

\* the host's engine_response_receiver.recv()
HostReceiver ==
    /\ AtSelect
    /\ cursor["host"] < Len(internal_bus)
    /\ IF Lagged(internal_bus, cursor["host"])
       THEN /\ cursor' = [cursor EXCEPT !["host"] = OldestRetained(internal_bus)]
            /\ UNCHANGED delivered
       ELSE /\ cursor' = [cursor EXCEPT !["host"] = @ + 1]
            /\ delivered' = [delivered EXCEPT !["host"] = Append(@, cursor["host"] + 1)]
    /\ UNCHANGED <<host_vars, seq_vars, broker_vars, conn_vars, to_server, server_pos,
                   command_channel, dispatched, response_channel, internal_bus,
                   to_client, client_pos, client_lines>>

\* One turn of the loop of the client's connection_reader: an empty read
\* breaks (nothing changes any more), every other line is parsed.
ClientReader ==
    /\ AtSelect
    /\ CanReadLine(to_client, client_pos)
    /\ LET r == read_line(to_client, client_pos)
       IN  /\ r.buffer # <<>>
           /\ client_pos' = r.pos
           /\ client_lines' = Append(client_lines, from_str(r.buffer))
    /\ UNCHANGED <<host_vars, seq_vars, broker_vars, conn_vars, to_server, server_pos,
                   command_channel, dispatched, response_channel, internal_bus,
                   cursor, delivered, to_client>>

\* the server has accepted the peer's connection, with id 1
WireInit ==
    /\ sequencer = NewSequencer
    /\ InitDb
    /\ handle = "clone"
    /\ call = NoCall
    /\ command_processor = "running"
    /\ current_user_permissions = {}
    /\ last = NoLast
    /\ sent = <<>>
    /\ wire = NoWire
    /\ connection = 1
    /\ accepted = 1
    /\ connection_reader = "running"
    /\ WireIdle
    /\ HostServing

WireNext ==
    \/ ClientWriter
    \/ PeerInjects
    \/ PeerCloses
    \/ ConnectionReader
    \/ AbortWriter
    \/ TakeExternal
    \/ TakeInternal
    \/ EndIteration
    \/ ConnectionWriter
    \/ HostReceiver
    \/ ClientReader

WireSpec == WireInit /\ [][WireNext]_vars

(***************************************************************************)
(* The engines of one host: Engine::create, connect_to_local and           *)
(* connect_to_remote of each process, and the endpoint "playit.sock" the   *)
(* processes compete for.  A connect call is two steps: it makes the link  *)
(* and starts the task of the new variant, then its take_mut::take swaps   *)
(* self.location.  Aborted tasks are torn down by the runtime later.       *)
(***************************************************************************)
\* a bind that succeeds whoever holds the endpoint
IPCServer_create_rebinding(l) == "Ok"

\* IPCServer::create: create_tokio binds the endpoint, and fails while a
\* listener holds it
IPCServer_create(l) == IF l.owner = NoProc THEN "Ok" ELSE "AddressInUse"

\* IPCClient::create: connecting succeeds when a listener holds the
\* endpoint (the connection is made before the server accepts it)
IPCClient_create(l) == IF l.owner # NoProc THEN "Ok" ELSE "ConnectionFailed"

other_vars == <<seq_vars, broker_vars, conn_vars, wire_vars, relay_vars>>

\* start_command_processor / start_command_relay: the new task subscribes to
\* the internal command bus and is spawned; the connect call goes on to its
\* take_mut::take
Started(p, variant, server) ==
    /\ returned' = NoReturn
    /\ tasks' = [tasks EXCEPT ![p] = @ \cup {Task(TaskOf(variant), "new")}]
    /\ pending' = [pending EXCEPT ![p] = [location |-> variant, link |-> server]]
    /\ phase' = [phase EXCEPT ![p] = "installing"]
    /\ UNCHANGED <<location, link>>

\* a `return` of a connect call before its take_mut::take
ReturnEarly(p, result) ==
    /\ phase' = [phase EXCEPT ![p] = "idle"]
    /\ returned' = Return(p, result)
    /\ UNCHANGED <<location, link, pending, tasks>>

\* a StartFailed that also resets the location
StartFailedResetting(p) ==
    /\ phase' = [phase EXCEPT ![p] = "idle"]
    /\ returned' = Return(p, "StartFailed")
    /\ location' = [location EXCEPT ![p] = "Invalid"]
    /\ UNCHANGED <<link, pending, tasks>>

\* `return Err(EngineLocalConnectionError::StartFailed)`
StartFailed(p) == ReturnEarly(p, "StartFailed")

\* connect_to_local past its early return, up to the start of the new task:
\* the server if the endpoint can be bound, else a client of the listener
\* that holds it.  A listener that was aborted may be torn down between the
\* failed bind and the connect, and then both fail.
BeginLocal(p) ==
    IF IPCServer_create(listener) = "Ok"
    THEN /\ listener' = [owner |-> p, aborted |-> FALSE]
         /\ Started(p, "Internal", NoProc)
    ELSE \/ /\ IPCClient_create(listener) = "Ok"
            /\ UNCHANGED listener
            /\ Started(p, "Local", listener.owner)
         \/ /\ listener.aborted
            /\ listener' = NoListener
            /\ IPCClient_create(listener') # "Ok"
            /\ StartFailed(p)

\* Engine::create: the engine is built with EngineLocation::Invalid and calls
\* connect_to_local, whose result it ignores
Create(p) ==
    /\ phase[p] = "absent"
    /\ BeginLocal(p)
    /\ UNCHANGED <<client_vars, other_vars>>

\* Engine::connect_to_local
ConnectToLocal(p) ==
    /\ phase[p] = "idle"
    /\ IF location[p] \in {"Internal", "Local"}
       THEN ReturnEarly(p, "Ok") /\ UNCHANGED listener
       ELSE BeginLocal(p)
    /\ UNCHANGED <<client_vars, other_vars>>

\* Engine::connect_to_remote: the peer at the address is reachable or not
ConnectToRemote(p) ==
    /\ phase[p] = "idle"
    /\ \E reachable \in BOOLEAN :
          IF reachable
          THEN Started(p, "Remote", Peer) /\ UNCHANGED listener
          ELSE ReturnEarly(p, "ConnectionFailed") /\ UNCHANGED listener
    /\ UNCHANGED <<client_vars, other_vars>>

\* `let _ = sender.send(item);` on a tokio mpsc::Sender: send is an async fn,
\* and the future it returns is dropped without being polled, so nothing
\* joins the queue
send_not_awaited(queue, item) == queue

\* impl Drop for IPCClient: the send of Goodbye, then both tasks aborted
DropClient(client) ==
    Client(send_not_awaited(client.queue, Cmd("Goodbye")), "aborted", "aborted")

\* the take_mut::take that ends a connect call: the task of the old variant
\* is aborted, the old variant is dropped (dropping an IPCServer aborts its
\* socket_listener, which owns the listener; dropping an IPCClient runs its
\* Drop) and the new one is installed
TakeLocation(p) ==
    /\ phase[p] = "installing"
    /\ tasks' = [tasks EXCEPT ![p] =
                    {Task(t.kind, "aborted") : t \in {u \in @ : u.state # "new"}}
                        \cup {Task(TaskOf(pending[p].location), "current")}]
    /\ listener' = IF location[p] = "Internal" /\ listener.owner = p
                   THEN [listener EXCEPT !.aborted = TRUE]
                   ELSE listener
    /\ location' = [location EXCEPT ![p] = pending[p].location]
    /\ link' = [link EXCEPT ![p] = pending[p].link]
    /\ pending' = [pending EXCEPT ![p] = NoPending]
    /\ phase' = [phase EXCEPT ![p] = "idle"]
    /\ returned' = NoReturn
    /\ IF location[p] \in {"Local", "Remote"}
       THEN dropped_client' = [dropped_client EXCEPT ![p] = DropClient(ipc_client[p])]
       ELSE UNCHANGED dropped_client
    /\ ipc_client' = [ipc_client EXCEPT ![p] =
                         IF pending[p].location \in {"Local", "Remote"}
                         THEN NewClient ELSE NoClient]
    /\ UNCHANGED other_vars

\* the runtime tears down a task that was aborted: its receiver of the
\* internal command bus is dropped
TaskCancelled(p) ==
    /\ \E t \in tasks[p] :
          /\ t.state = "aborted"
          /\ tasks' = [tasks EXCEPT ![p] = @ \ {t}]
    /\ returned' = NoReturn
    /\ UNCHANGED <<phase, location, link, pending, listener, client_vars>>
    /\ UNCHANGED other_vars

\* the runtime tears down the aborted socket_listener: the endpoint is free
ListenerCancelled ==
    /\ listener.aborted
    /\ listener' = NoListener
    /\ returned' = NoReturn
    /\ UNCHANGED <<phase, location, link, pending, tasks, client_vars>>
    /\ UNCHANGED other_vars

\* no engine has been created on the host
HostInit ==
    /\ sequencer = NewSequencer
    /\ InitDb
    /\ handle = "clone"
    /\ call = NoCall
    /\ command_processor = "running"
    /\ current_user_permissions = {}
    /\ last = NoLast
    /\ sent = <<>>
    /\ wire = NoWire
    /\ connection = Nil
    /\ accepted = 0
    /\ connection_reader = "none"
    /\ WireIdle
    /\ phase = [p \in Procs |-> "absent"]
    /\ location = [p \in Procs |-> "Invalid"]
    /\ link = [p \in Procs |-> NoProc]
    /\ pending = [p \in Procs |-> NoPending]
    /\ tasks = [p \in Procs |-> {}]
    /\ listener = NoListener
    /\ ipc_client = [p \in Procs |-> NoClient]
    /\ dropped_client = [p \in Procs |-> NoClient]
    /\ RelayIdle
    /\ returned = NoReturn

HostNext ==
    \/ \E p \in Procs : Create(p)
    \/ \E p \in Procs : ConnectToLocal(p)
    \/ \E p \in Procs : ConnectToRemote(p)
    \/ \E p \in Procs : TakeLocation(p)
    \/ \E p \in Procs : TaskCancelled(p)
    \/ ListenerCancelled

HostSpec == HostInit /\ [][HostNext]_vars

(***************************************************************************)
(* The relay: the task of Engine::start_command_relay of an engine in      *)
(* Remote mode, with the IPCClient that feeds it (engine/src/lib.rs,       *)
(* engine/src/ipc/client.rs).  to_client holds the bytes the server at the *)
(* other end of the link has written, ipc_client[1].queue is the channel   *)
(* to the client's connection_writer, internal_bus the internal response   *)
(* bus.  The connection_writer waits in recv on that channel; it has no    *)
(* step here because nothing ever joins the channel.                       *)
(***************************************************************************)
\* the responses a server sends over the link
LinkResponses ==
    {NowPaused, RecordingMetadataResp("b", ""), RecordingFileResp("b", "pcm"),
     PlaylistMetadataResp("b", "n1")}

\* one response as a server frames it for this reader, or a line that is no
\* EngineResponse
LinkLines == {<<Json(r), Newline>> : r \in LinkResponses} \cup {<<Junk, Newline>>}

\* the response branch of the relay's select: match response { .. }, as
\* [db, sends].  get_recording_metadata is called without .await and so
\* does nothing; the sends are on a broadcast channel and take effect.
RelayResponseArm(permissions, db, response, net) ==
    LET republish == <<Send("internal", response, Nil)>>
    IN  CASE response.r = "RecordingFile" ->
                 [db |-> IF permission_exists(permissions, "Transfer")
                         THEN set_recording_file(db, response.c.id, response.c.s, net)
                         ELSE db,
                  sends |-> republish]
          [] response.r = "PlaylistMetadata" ->
                 [db |-> IF permission_exists(permissions, "Playlist")
                         THEN set_playlist(db, response.c.id, response.c.s)
                         ELSE db,
                  sends |-> republish]
          [] OTHER -> [db |-> db, sends |-> republish]

\* the command branch of the relay's select: match command { .. }, as
\* [seq, db, permissions, queue]
RelayCommandArm(permissions, seq, db, queue, command, net) ==
    LET same == [seq |-> seq, db |-> db, permissions |-> permissions, queue |-> queue]
    IN  CASE command.type = "SendRecording" ->
                 [same EXCEPT !.db = set_recording_file(db, command.id, command.s, net),
                              !.queue = send_not_awaited(queue, command)]
          [] command.type = "SetPlaylistMetadata" ->
                 [same EXCEPT !.db = set_playlist(db, command.id, command.s),
                              !.queue = send_not_awaited(queue, command)]
          [] command.type = "SetVolume" ->
                 [same EXCEPT !.seq = set_volume(seq, db, command.n).seq]
          [] command.type = "SetPermissions" ->
                 [same EXCEPT !.permissions = command.perms]
          [] OTHER -> [same EXCEPT !.queue = send_not_awaited(queue, command)]

\* the commands the host application publishes while the relay runs: one
\* that is forwarded as it is, and those of every other arm
RelayCommands ==
    {c \in InternalCommands :
        c.type \in {"Pause", "SendRecording", "SetPlaylistMetadata", "SetVolume",
                    "SetPermissions"}}

\* what no step of the relay or of its client touches
relay_rest ==
    <<playlist_db, handle, call, broker_vars, conn_vars, to_server, server_pos,
      command_channel, dispatched, response_channel, cursor, delivered,
      phase, location, link, pending, tasks, listener, dropped_client,
      returned>>

\* the server at the other end writes one line
ServerWrites ==
    /\ Eof \notin Range(to_client)
    /\ Cardinality({i \in 1..Len(to_client) : to_client[i] = Newline}) < MaxWrites
    /\ \E line \in LinkLines : to_client' = to_client \o line
    /\ UNCHANGED <<sequencer, metadata_db, internal_bus, client_pos, client_lines,
                   ipc_client, relay_vars, relay_rest>>

\* the server at the other end closes the link
ServerCloses ==
    /\ Eof \notin Range(to_client)
    /\ to_client' = Append(to_client, Eof)
    /\ UNCHANGED <<sequencer, metadata_db, internal_bus, client_pos, client_lines,
                   ipc_client, relay_vars, relay_rest>>

\* One turn of the loop of the client's connection_reader: an empty read
\* breaks, which drops response_sender; every other line is parsed and a
\* response is handed to response_sender.send, which is not awaited.
RelayClientReader ==
    /\ ipc_client[1].reader = "running"
    /\ CanReadLine(to_client, client_pos)
    /\ LET r == read_line(to_client, client_pos)
           message == from_str(r.buffer)
       IN  IF r.buffer = <<>>
           THEN /\ ipc_client' = [ipc_client EXCEPT ![1].reader = "finished"]
                /\ UNCHANGED <<client_pos, client_lines, response_receiver>>
           ELSE /\ client_pos' = r.pos
                /\ client_lines' = Append(client_lines, message)
                /\ response_receiver' =
                       IF message.ok THEN send_not_awaited(response_receiver, message.m)
                       ELSE response_receiver
                /\ UNCHANGED ipc_client
    /\ UNCHANGED <<sequencer, metadata_db, internal_bus, to_client,
                   remote_device_permissions, relay_last, relay_rest>>

\* response = response_receiver.recv(): Some(response) while one is queued,
\* None once the channel is closed (the reader has ended) and empty
RelayResponse ==
    /\ response_receiver # <<>> \/ ipc_client[1].reader = "finished"
    /\ IF response_receiver # <<>>
       THEN \E net \in BOOLEAN :
                LET response == Head(response_receiver)
                    o == RelayResponseArm(remote_device_permissions, metadata_db,
                                          response, net)
                IN  /\ metadata_db' = o.db
                    /\ internal_bus' = internal_bus \o o.sends
                    /\ response_receiver' = Tail(response_receiver)
                    /\ relay_last' = Turn("response", FALSE, response)
       ELSE /\ relay_last' = Turn("response", TRUE, Cmd("-"))
            /\ UNCHANGED <<metadata_db, internal_bus, response_receiver>>
    /\ UNCHANGED <<sequencer, to_client, client_pos, client_lines, ipc_client,
                   remote_device_permissions, relay_rest>>

\* command = command_receiver.recv(): a command the host application has
\* published on the internal command bus
RelayCommand ==
    /\ \E command \in RelayCommands, net \in BOOLEAN :
          LET o == RelayCommandArm(remote_device_permissions, sequencer, metadata_db,
                                   ipc_client[1].queue, command, net)
          IN  /\ sequencer' = o.seq
              /\ metadata_db' = o.db
              /\ remote_device_permissions' = o.permissions
              /\ ipc_client' = [ipc_client EXCEPT ![1].queue = o.queue]
              /\ relay_last' = Turn("command", FALSE, command)
    /\ UNCHANGED <<internal_bus, to_client, client_pos, client_lines,
                   response_receiver, relay_rest>>

\* connect_to_remote has installed EngineLocation::Remote in the first
\* process: its IPCClient is connected and its relay is running
RelayInit ==
    /\ sequencer = NewSequencer
    /\ InitDb
    /\ handle = "clone"
    /\ call = NoCall
    /\ command_processor = "running"
    /\ current_user_permissions = {}
    /\ last = NoLast
    /\ sent = <<>>
    /\ wire = NoWire
    /\ connection = Nil
    /\ accepted = 0
    /\ connection_reader = "none"
    /\ WireIdle
    /\ phase = [p \in Procs |-> IF p = 1 THEN "idle" ELSE "absent"]
    /\ location = [p \in Procs |-> IF p = 1 THEN "Remote" ELSE "Invalid"]
    /\ link = [p \in Procs |-> IF p = 1 THEN Peer ELSE NoProc]
    /\ pending = [p \in Procs |-> NoPending]
    /\ tasks = [p \in Procs |-> IF p = 1 THEN {Task(TaskOf("Remote"), "current")} ELSE {}]
    /\ listener = NoListener
    /\ ipc_client = [p \in Procs |-> IF p = 1 THEN NewClient ELSE NoClient]
    /\ dropped_client = [p \in Procs |-> NoClient]
    /\ RelayIdle
    /\ returned = NoReturn

RelayNext ==
    \/ ServerWrites
    \/ ServerCloses
    \/ RelayClientReader
    \/ RelayResponse
    \/ RelayCommand

RelaySpec == RelayInit /\ [][RelayNext]_vars

(***************************************************************************)
(* The server process leaves EngineLocation::Internal while it serves a    *)
(* connection: the steps of one connection together with the connect       *)
(* calls of the first process.  abort() on the broker and on the accept    *)
(* loop stops them where they wait; the reader and the writer of a         *)
(* connection are tasks of their own, spawned by the accept loop, which    *)
(* holds their JoinHandles: dropping a JoinHandle detaches the task.       *)
(***************************************************************************)
\* the accept loop has not been aborted
ListenerTask == listener.owner = 1 /\ ~listener.aborted

\* the broker has not been aborted
BrokerRuns == Task("command_processor", "current") \in tasks[1]

ShutdownNext ==
    \/ ClientWriter
    \/ PeerInjects
    \/ PeerCloses
    \/ ConnectionReader
    \/ ListenerTask /\ AbortWriter
    \/ BrokerRuns /\ TakeExternal
    \/ BrokerRuns /\ TakeInternal
    \/ EndIteration
    \/ ConnectionWriter
    \/ HostReceiver
    \/ ClientReader
    \/ ConnectToRemote(1)
    \/ TakeLocation(1)
    \/ TaskCancelled(1)
    \/ ListenerCancelled

ShutdownSpec == WireInit /\ [][ShutdownNext]_vars

(***************************************************************************)
(* Properties                                                              *)
(***************************************************************************)
\* The capability each gated command requires, as the specification lists
\* them; "" for a command that is not gated.
RequiredPermission(cmd) ==
    CASE cmd.type = "Play" /\ cmd.flag -> "Control"
      [] cmd.type \in {"Pause", "Next", "Previous", "Seek", "ShuffleQueue", "LoopMode"}
           -> "Control"
      [] cmd.type = "Queue" /\ cmd.flag -> "Queue"
      [] cmd.type = "ClearQueue" -> "Queue"
      [] cmd.type = "SetPlaylistMetadata" -> "Playlist"
      [] cmd.type = "SendRecording" -> "Transfer"
      [] OTHER -> ""

Gated(cmd) == RequiredPermission(cmd) # ""

\* the Sequencer or MediaStore operation a gated command stands for
OperationOf(cmd) ==
    CASE cmd.type = "Play" -> "play"
      [] cmd.type = "Pause" -> "pause"
      [] cmd.type = "Next" -> "next"
      [] cmd.type = "Previous" -> "previous"
      [] cmd.type = "Seek" -> "seek"
      [] cmd.type = "Queue" -> "add_queue"
      [] cmd.type = "ShuffleQueue" -> "set_shuffle"
      [] cmd.type = "ClearQueue" -> "clear_queue"
      [] cmd.type = "LoopMode" -> "set_loop_mode"
      [] cmd.type = "SetPlaylistMetadata" -> "set_playlist"
      [] cmd.type = "SendRecording" -> "set_recording_file"
      [] OTHER -> "none"

\* C1  Permission gating: an iteration that takes a gated command from an
\* external connection X while the permission list lacks the command's
\* capability sends exactly one message, Nope(command) tagged X on the
\* server's response channel, sends nothing on the internal bus, calls no
\* operation, and leaves the sequencer cells and both database trees as
\* they were.
C1_PermissionGating ==
    [][(/\ last = NoLast
        /\ Gated(last'.cmd)
        /\ ~last'.internal
        /\ RequiredPermission(last'.cmd) \notin current_user_permissions)
       => (/\ sent' = <<Send("remote", Nope(last'.cmd), last'.uuid)>>
           /\ call' = NoCall
           /\ command_processor' = "running"
           /\ sequencer' = sequencer
           /\ metadata_db' = metadata_db
           /\ playlist_db' = playlist_db
           /\ current_user_permissions' = current_user_permissions)]_vars

\* a denied upload from connection 2 while the list holds Control only,
\* with a non-empty queue and a track playing
C1_Witness ==
    /\ last.cmd.type = "SendRecording"
    /\ ~last.internal
    /\ last.uuid = 2
    /\ current_user_permissions = {"Control"}
    /\ sent = <<Send("remote", Nope(last.cmd), 2)>>
    /\ sequencer.queue # <<>>
    /\ sequencer.playing # NoId

\* C2  Dispatch condition: after an iteration on a gated command, the
\* command's operation was invoked if and only if the command came from
\* the internal bus or the permission list holds the capability fixed for
\* its kind.
C2_DispatchCondition ==
    Gated(last.cmd) =>
        ((call.op = OperationOf(last.cmd))
            <=> (last.internal
                    \/ RequiredPermission(last.cmd) \in current_user_permissions))

\* an internal ClearQueue is carried out under the empty permission list,
\* and an external one under a list that holds Queue
C2_Witness ==
    /\ last.cmd.type = "ClearQueue"
    /\ call.op = "clear_queue"
    /\ \/ last.internal /\ current_user_permissions = {}
       \/ ~last.internal /\ current_user_permissions = {"Queue"}

\* the responses among a sequence of sends
Responses(sends) == {sends[i].resp : i \in 1..Len(sends)}

\* the responses the iteration put on the internal bus
OnInternalBus == Responses(SelectSeq(sent, LAMBDA m : m.chan = "internal"))

\* C3  Response routing by token: every response the iteration emitted
\* with the nil token is on the internal bus and, when a peer is connected,
\* on that peer's stream, whatever the origin of the command; a response
\* tagged with a connection id is not on the internal bus and is on no
\* stream but that connection's.
C3_RoutingByToken ==
    \A i \in 1..Len(sent) :
        LET m == sent[i]
        IN  /\ m.uuid = Nil =>
                /\ m.resp \in OnInternalBus
                /\ connection # Nil => m.resp \in Responses(wire.msgs)
            /\ m.uuid \in ConnIds =>
                /\ m.chan = "remote"
                /\ wire.to # m.uuid => m \notin Range(wire.msgs)

\* C4  Permissions are per connection: when a connection is accepted, the
\* list that will be consulted for its commands is empty.
C4_NewConnectionStartsEmpty ==
    [][AcceptConnection => current_user_permissions' = {}]_vars

\* C5  The broker loop never exits: the broker task is running in every
\* reachable state.
C5_BrokerNeverExits == command_processor = "running"

\* the Sequencer returned an error (it neither succeeded, unwound nor hung)
Failed(res) == res \notin {"Ok", "Panic", "Hang"}

\* C6  Sequencer failures are answered to the origin only: when the call
\* made for Play(Some id), Next, Previous or Seek returns an error, the
\* iteration's only send is Nope(command), on the internal bus for an
\* internal command and tagged with X on the response channel for a command
\* of connection X, so that a live connection other than X is written
\* nothing.
C6_FailureToOriginOnly ==
    (/\ \/ last.cmd.type = "Play" /\ last.cmd.flag
        \/ last.cmd.type \in {"Next", "Previous", "Seek"}
     /\ call.op = OperationOf(last.cmd)
     /\ Failed(call.res))
    => /\ sent = <<Send(IF last.internal THEN "internal" ELSE "remote",
                        Nope(last.cmd), last.uuid)>>
       /\ (last.internal \/ wire.to # last.uuid) => wire.msgs = <<>>
       /\ (~last.internal /\ wire.to = last.uuid) => wire.msgs = sent

\* connection 1 has closed and connection 2 is live when a Next of
\* connection 1 fails on the empty queue
C6_Witness ==
    /\ last.cmd.type = "Next"
    /\ ~last.internal
    /\ last.uuid = 1
    /\ connection = 2
    /\ call.op = "next"
    /\ call.res = "NoSongsQueued"
    /\ sent = <<Send("remote", Nope(last.cmd), 1)>>
    /\ wire = [to |-> 2, msgs |-> <<>>]

\* C7  Queue/shuffle containment: in every state reached by calls of the
\* Sequencer, every id in the shuffled view of the handle, and every id in
\* the shuffled_queue cell, also occurs in the canonical queue.
C7_ShuffledWithinQueue ==
    /\ Range(Shuffled(handle, sequencer)) \subseteq Range(sequencer.queue)
    /\ Range(sequencer.shuffled_queue) \subseteq Range(sequencer.queue)

\* shuffle is on, a next() has popped one track of three from the shuffled
\* view and from the canonical queue, and two remain in each
C7_Witness ==
    /\ handle = "new"
    /\ sequencer.shuffle
    /\ call.op = "next"
    /\ call.res = "Ok"
    /\ Len(sequencer.shuffled_queue) = 2
    /\ Len(sequencer.queue) = 2
    /\ sequencer.shuffled_queue # sequencer.queue

\* C8  History round-trip: a play() or next() that starts a track while
\* track A is the playing track leaves A at the head of the history
\* backlog.
C8_HistoryRecorded ==
    [][(/\ call = NoCall
        /\ call'.op \in {"play", "next"}
        /\ call'.res = "Ok"
        /\ sequencer.playing # NoId)
       => (/\ sequencer'.song_backlog # <<>>
           /\ Head(sequencer'.song_backlog) = sequencer.playing)]_vars

\* the database can produce a decodable audio file for id
Playable(db, id) == db[id] = RecordingEntry("pcm")

\* k consecutive next() calls, stopping at the first that does not succeed
RECURSIVE NextTimes(_, _, _, _, _)
NextTimes(h, seq, db, net, k) ==
    IF k = 0 THEN Out(seq, db, "Ok", <<>>)
    ELSE LET o == NextTimes(h, seq, db, net, k - 1)
         IN  IF o.res # "Ok" THEN o ELSE next(h, o.seq, o.db, net)

\* LoopQueue, shuffle off, and every queued track playable
RingState ==
    /\ sequencer.loop_mode = "LoopQueue"
    /\ ~sequencer.shuffle
    /\ \A i \in 1..Len(sequencer.queue) : Playable(metadata_db, sequencer.queue[i])

\* C9  Ring rotation: from a state with LoopQueue, shuffle off and a queue
\* q of n playable tracks, the k-th of n consecutive next() calls succeeds,
\* plays q[k], leaves q rotated left by k with its length unchanged, and
\* the n-th leaves the queue equal to q.
C9_RingRotation ==
    RingState =>
        LET q == sequencer.queue
            n == Len(q)
        IN  \A net \in BOOLEAN : \A k \in 1..n :
                LET o == NextTimes(handle, sequencer, metadata_db, net, k)
                IN  /\ o.res = "Ok"
                    /\ o.seq.playing = q[k]
                    /\ get_playing(o.seq) = q[k]
                    /\ Len(o.seq.queue) = n
                    /\ o.seq.queue = SubSeq(q, k + 1, n) \o SubSeq(q, 1, k)
                    /\ k = n => o.seq.queue = q

\* a next() has just rotated a ring of three tracks holding both ids
C9_Witness ==
    /\ RingState
    /\ call.op = "next"
    /\ call.res = "Ok"
    /\ Len(sequencer.queue) = 3
    /\ Range(sequencer.queue) = Ids
    /\ sequencer.playing = sequencer.queue[3]

\* the MediaStore can retrieve the recording file of id: the metadata is
\* stored and names an audio file (a lookup of an unknown id yields
\* metadata without one)
Retrievable(db, id) == db[id].kind = "recording" /\ db[id].data # ""

\* C10  Partial queue failure: an add_queue(ids) that returns is Ok, returns
\* the subsequence of ids that are not retrievable and appends the
\* retrievable ones in order; the broker's sends for Queue(Some ids) are
\* then Nope(Queue(returned list)) to the origin when that list is not
\* empty, followed by Queue(current queue) with the nil token and nothing
\* else.
C10_PartialQueueFailure ==
    [][(/\ call = NoCall
        /\ call'.op = "add_queue"
        /\ call'.res # "Hang")
       => LET ids == call'.ids
              bad == SelectSeq(ids, LAMBDA id : ~Retrievable(metadata_db, id))
              good == SelectSeq(ids, LAMBDA id : Retrievable(metadata_db, id))
              nope == IF bad # <<>>
                      THEN <<Send(IF last'.internal THEN "internal" ELSE "remote",
                                  Nope(QueueSome(bad)), last'.uuid)>>
                      ELSE <<>>
              rest == SubSeq(sent', Len(nope) + 1, Len(sent'))
          IN  /\ call'.res = "Ok"
              /\ call'.ret = bad
              /\ sequencer'.queue = sequencer.queue \o good
              /\ last'.cmd = QueueSome(ids)
              /\ Len(sent') > Len(nope)
              /\ SubSeq(sent', 1, Len(nope)) = nope
              /\ \A i \in 1..Len(rest) :
                    /\ rest[i].resp = QueueResp(sequencer'.queue)
                    /\ rest[i].uuid = Nil]_vars

\* connection 1 queued <<a, b>> onto the empty queue; b is not retrievable,
\* so it got Nope(Queue(<<b>>)) and then the queue broadcast
C10_Witness ==
    /\ last.cmd = QueueSome(<<"a", "b">>)
    /\ ~last.internal
    /\ last.uuid = 1
    /\ call.op = "add_queue"
    /\ call.ret = <<"b">>
    /\ sequencer.queue = <<"a">>
    /\ sent = <<Send("remote", Nope(QueueSome(<<"b">>)), 1),
                Send("internal", QueueResp(<<"a">>), Nil),
                Send("remote", QueueResp(<<"a">>), Nil)>>
    /\ wire.msgs = <<sent[1], sent[3]>>

\* C13  Connection isolation: whenever the broker is between iterations and
\* one more peer can connect, the server can accept that peer, whether or
\* not a connection is open.
C13_AcceptWhileOpen ==
    (AtSelect /\ accepted < MaxConn) => ENABLED AcceptConnection

\* C18  Query commands are never gated: for Queue(None), RecordingMetadata,
\* RecordingFile and PlaylistMetadata from an external connection, whatever
\* the permission list, Queue(None) is answered with the queue, and each of
\* the others makes its MediaStore lookup and is answered to the connection
\* with the data found when the lookup succeeds and with Nope(command) when
\* it fails.
C18_QueriesNeverGated ==
    ~last.internal =>
        /\ (last.cmd.type = "Queue" /\ ~last.cmd.flag) =>
              /\ call = NoCall
              /\ sent = <<Send("internal", QueueResp(get_queue(handle, sequencer)), Nil),
                          Send("remote", QueueResp(get_queue(handle, sequencer)), Nil)>>
        /\ last.cmd.type \in {"RecordingMetadata", "RecordingFile", "PlaylistMetadata"} =>
              LET id == last.cmd.id
                  data == IF last.cmd.type = "PlaylistMetadata" THEN playlist_db[id].data
                          ELSE metadata_db[id].data
                  found == CASE last.cmd.type = "RecordingMetadata" ->
                                    RecordingMetadataResp(id, data)
                             [] last.cmd.type = "RecordingFile" -> RecordingFileResp(id, data)
                             [] last.cmd.type = "PlaylistMetadata" ->
                                    PlaylistMetadataResp(id, data)
              IN  /\ call.op = (CASE last.cmd.type = "RecordingMetadata" ->
                                         "get_recording_metadata"
                                  [] last.cmd.type = "RecordingFile" -> "get_recording_file"
                                  [] last.cmd.type = "PlaylistMetadata" -> "get_playlist")
                  /\ sent = <<Send("remote",
                                   IF call.res = "Ok" THEN found ELSE Nope(last.cmd),
                                   last.uuid)>>

\* connection 1, holding no capability, asked for the file of a and got it
C18_Witness ==
    /\ last.cmd.type = "RecordingFile"
    /\ ~last.internal
    /\ last.uuid = 1
    /\ current_user_permissions = {}
    /\ call.res = "Ok"
    /\ sent = <<Send("remote", RecordingFileResp("a", "pcm"), 1)>>

\* C19  SetPermissions is accepted only from the internal bus: an iteration
\* on a command of an external connection never changes the permission
\* list, and on an external SetPermissions it sends Nope(SetPermissions)
\* tagged with the connection and nothing else, makes no call and changes
\* no state.
C19_ExternalNeverGrants ==
    [][(last = NoLast /\ ~last'.internal)
       => (/\ current_user_permissions' = current_user_permissions
           /\ last'.cmd.type = "SetPermissions" =>
                 /\ sent' = <<Send("remote", Nope(last'.cmd), last'.uuid)>>
                 /\ call' = NoCall
                 /\ sequencer' = sequencer
                 /\ metadata_db' = metadata_db)]_vars

\* connection 2 asked for Control while the list held Queue; it was refused
\* and the list still holds Queue
C19_Witness ==
    /\ last.cmd.type = "SetPermissions"
    /\ last.cmd.perms = {"Control"}
    /\ ~last.internal
    /\ last.uuid = 2
    /\ current_user_permissions = {"Queue"}
    /\ wire = [to |-> 2, msgs |-> <<Send("remote", Nope(last.cmd), 2)>>]

\* C20  GetPermissions: from the internal bus the only send is
\* Permissions(all four capabilities) on the internal bus, whatever the
\* current list; from connection X the only send is Permissions([]) tagged
\* with X.
C20_GetPermissions ==
    last.cmd.type = "GetPermissions" =>
        /\ call = NoCall
        /\ sent = IF last.internal
                  THEN <<Send("internal",
                              PermissionsResp({"Control", "Queue", "Playlist", "Transfer"}),
                              NoToken)>>
                  ELSE <<Send("remote", PermissionsResp({}), last.uuid)>>
        /\ last.internal => wire.msgs = <<>>
        /\ (~last.internal /\ wire.to # last.uuid) => wire.msgs = <<>>

\* the host asked while the list held Queue only and a peer was connected
C20_Witness ==
    /\ last.cmd.type = "GetPermissions"
    /\ last.internal
    /\ current_user_permissions = {"Queue"}
    /\ connection = 1
    /\ sent = <<Send("internal", PermissionsResp(Permissions), NoToken)>>

\* the lines of a byte stream: each ends with its newline, the last one may
\* lack it; the end-of-stream mark belongs to no line
RECURSIVE Lines(_)
Lines(bytes) ==
    IF bytes = <<>> \/ Head(bytes) = Eof THEN <<>>
    ELSE LET e == LineEnd(bytes, 0)
             k == IF e = 0 THEN Len(bytes) ELSE IF bytes[e] = Newline THEN e ELSE e - 1
         IN  <<SubSeq(bytes, 1, k)>> \o Lines(SubSeq(bytes, k + 1, Len(bytes)))

\* the messages that a line-reading receiver can recover from the lines
RECURSIVE Messages(_)
Messages(lines) ==
    IF lines = <<>> THEN <<>>
    ELSE LET p == from_str(Head(lines))
         IN  (IF p.ok THEN <<p.m>> ELSE <<>>) \o Messages(Tail(lines))

\* the stream is a run of lines, each one token followed by one newline
Framed(bytes) ==
    \A i \in 1..Len(bytes) :
        bytes[i] # Eof => (bytes[i] = Newline <=> i % 2 = 0)

\* the responses the server's writer has written to the connection
RECURSIVE Written(_)
Written(positions) ==
    IF positions = <<>> THEN <<>>
    ELSE LET m == response_channel[Head(positions)]
         IN  (IF WriterForwards(1, m.uuid) THEN <<m.resp>> ELSE <<>>)
                 \o Written(Tail(positions))

\* C11  Wire framing: the bytes written to the connection in either
\* direction are a run of records each followed by exactly one newline, and
\* every line the client's reader has read is one of the responses the
\* server's writer wrote, in the order written.
C11_WireFraming ==
    /\ Framed(to_server)
    /\ Framed(to_client)
    /\ Len(client_lines) <= Len(Written(delivered["writer"]))
    /\ \A i \in 1..Len(client_lines) :
          client_lines[i] = [ok |-> TRUE, m |-> Written(delivered["writer"])[i]]

\* the commands of the lines read so far, Goodbye excepted
Forwardable(bytes) ==
    SelectSeq(Messages(Lines(bytes)), LAMBDA m : m.type # "Goodbye")

\* the commands of the connection that the broker has taken, oldest first
TakenFrom(uuid) ==
    LET taken == SelectSeq(dispatched, LAMBDA d : ~d.internal /\ d.uuid = uuid)
    IN  [i \in 1..Len(taken) |-> taken[i].cmd]

\* the commands of the connection that wait in the command channel
QueuedFrom(uuid) ==
    LET queued == SelectSeq(command_channel, LAMBDA q : q.uuid = uuid)
    IN  [i \in 1..Len(queued) |-> queued[i].cmd]

\* C12  Malformed-line resilience: while the broker runs, the commands
\* forwarded for the connection (taken by the broker or waiting in the
\* command channel) are exactly the commands of the lines the reader has
\* read, lines that are no Command contributing nothing; and the reader
\* has ended only on Goodbye or on the end of the stream.
C12_MalformedLineSkipped ==
    /\ command_processor = "running" =>
          TakenFrom(1) \o QueuedFrom(1) = Forwardable(SubSeq(to_server, 1, server_pos))
    /\ connection_reader # "running" =>
          \/ server_pos < Len(to_server) /\ to_server[server_pos + 1] = Eof
          \/ /\ server_pos >= 2
             /\ to_server[server_pos - 1] = Json(Cmd("Goodbye"))

\* a line that is no Command was read first; the Pause written after it
\* was forwarded and dispatched, and the connection is still served
C12_Witness ==
    /\ to_server = <<Junk, Newline>> \o ClientFrame(Cmd("Pause"))
    /\ server_pos = 4
    /\ connection = 1
    /\ TakenFrom(1) = <<Cmd("Pause")>>
    /\ QueuedFrom(1) = <<>>

\* the sends of the dispatched commands on the response channel, in order
RECURSIVE RemoteSends(_)
RemoteSends(ds) ==
    IF ds = <<>> THEN <<>>
    ELSE SelectSeq(Head(ds).sends, LAMBDA m : m.chan = "remote") \o RemoteSends(Tail(ds))

\* C16  Per-connection ordering: the commands of the connection that the
\* broker has dispatched are, in order, the first of the commands the
\* connection sent, and the response channel holds the responses of the
\* dispatched commands in the order of their dispatch.
C16_PerConnectionOrder ==
    /\ Len(TakenFrom(1)) <= Len(Forwardable(to_server))
    /\ TakenFrom(1) = SubSeq(Forwardable(to_server), 1, Len(TakenFrom(1)))
    /\ response_channel = RemoteSends(dispatched)

\* the connection sent None, then Pause; both have been dispatched in that
\* order, around a command of the host, and answered in that order
C16_Witness ==
    /\ TakenFrom(1) = <<Cmd("None"), Cmd("Pause")>>
    /\ Len(dispatched) = 3
    /\ dispatched[2].internal
    /\ response_channel = <<Send("remote", OkResp(Cmd("None")), 1),
                            Send("remote", Nope(Cmd("Pause")), 1)>>

\* the broadcast channel a consumer reads
ChannelOf(c) == IF c = "writer" THEN response_channel ELSE internal_bus

\* the messages a consumer has gone past without being given them
Lost(c) == (1..cursor[c]) \ Range(delivered[c])

\* C17  Lossy broadcast: a consumer is given the messages of its channel in
\* the order sent; the only messages it goes past without being given them
\* are messages that its channel, holding more than its capacity, no
\* longer retains; and the broker can take the next queued command however
\* far a consumer lags.
C17_LossyBroadcast ==
    /\ \A c \in Consumers :
          /\ \A i, j \in 1..Len(delivered[c]) : i < j => delivered[c][i] < delivered[c][j]
          /\ Range(delivered[c]) \subseteq 1..cursor[c]
          /\ \A k \in Lost(c) : k <= Len(ChannelOf(c)) - Capacity
    /\ (command_channel # <<>> /\ last = NoLast /\ command_processor = "running")
          => ENABLED TakeExternal

\* the writer lagged and lost the oldest response, the broker went on to
\* dispatch the next command, and the host has been given every message of
\* the internal bus
C17_Witness ==
    /\ Lost("writer") = {1}
    /\ delivered["writer"] = <<2>>
    /\ Len(TakenFrom(1)) = 2
    /\ Lost("host") = {}
    /\ cursor["host"] = Len(internal_bus)
    /\ Len(internal_bus) >= 1


\* the broker/relay tasks of p that have not been cancelled
Running(p) == {t \in tasks[p] : t.state # "aborted"}

\* C14  Topology transitions never overlap: no process ever has two
\* broker/relay tasks that are started and not cancelled, that is, the task
\* of the superseded variant is cancelled before the task of the new
\* variant is started.
C14_NoOverlap == \A p \in Procs : Cardinality(Running(p)) <= 1

\* p is the server: its location is Internal
IsInternal(p) == location[p] = "Internal"

\* C15  Single canonical server per host: at most one process is Internal,
\* and an Internal process holds the live listener; the process that binds
\* the endpoint is installed as Internal; and an engine created while a
\* process is Internal starts a relay as a client of that process and ends
\* in Local, linked to it.
C15_SingleServer ==
    /\ [](\A p, q \in Procs : (IsInternal(p) /\ IsInternal(q)) => p = q)
    /\ [](\A p \in Procs :
            IsInternal(p) => listener = [owner |-> p, aborted |-> FALSE])
    /\ [](\A p \in Procs :
            (listener.owner = p /\ ~listener.aborted)
                => \/ IsInternal(p)
                   \/ phase[p] = "installing" /\ pending[p].location = "Internal")
    /\ [][\A p, q \in Procs :
            (phase[p] = "absent" /\ phase'[p] # "absent" /\ IsInternal(q))
                => /\ phase'[p] = "installing"
                   /\ pending'[p] = [location |-> "Local", link |-> q]]_vars
    /\ [][\A p \in Procs :
            (phase[p] = "installing" /\ phase'[p] # "installing")
                => /\ location'[p] = pending[p].location
                   /\ link'[p] = pending[p].link]_vars

\* process 1 bound the endpoint and is Internal; process 2 was created
\* while it ran and is Local, a client of process 1
C15_Witness ==
    /\ location[1] = "Internal"
    /\ listener = [owner |-> 1, aborted |-> FALSE]
    /\ location[2] = "Local"
    /\ link[2] = 1
    /\ phase[2] = "idle"

\* C21  SetVolume is applied only for the internal origin: an iteration on
\* SetVolume from an external connection makes no call, sends nothing and
\* leaves the sequencer cells (the volume among them), both database trees
\* and the permission list as they were, whatever the list holds; an
\* iteration on SetVolume(v) from the internal bus sets the volume to v.
C21_SetVolumeInternalOnly ==
    [][(last = NoLast /\ last'.cmd.type = "SetVolume")
       => IF last'.internal
          THEN /\ call'.op = "set_volume"
               /\ sequencer' = [sequencer EXCEPT !.volume = last'.cmd.n]
          ELSE /\ call' = NoCall
               /\ sent' = <<>>
               /\ wire'.msgs = <<>>
               /\ sequencer' = sequencer
               /\ metadata_db' = metadata_db
               /\ playlist_db' = playlist_db
               /\ current_user_permissions' = current_user_permissions
               /\ command_processor' = "running"]_vars

\* connection 1, live and holding Control, asked for volume 2: nothing was
\* sent and the volume is still the initial one
C21_Witness ==
    /\ last.cmd.type = "SetVolume"
    /\ last.cmd.n = 2
    /\ ~last.internal
    /\ last.uuid = 1
    /\ connection = 1
    /\ current_user_permissions = {"Control"}
    /\ sequencer.volume = 1
    /\ sent = <<>>

\* the line the server's reader reads next
NextLine == read_line(to_server, server_pos).buffer

\* C22  Connection teardown: the reader finishes only on reading Goodbye or
\* an empty line, and that step puts nothing in the command channel; the
\* connection is given up (the writer aborted) only after the reader has
\* finished; once it is given up nothing more is written to it, while the
\* broker still takes and answers commands; and neither step changes the
\* broker, the sequencer, the databases or either broadcast channel.
C22_ConnectionTeardown ==
    /\ [][(connection_reader = "running" /\ connection_reader' # "running")
          => /\ connection_reader' = "finished"
             /\ NextLine \in {<<>>, ClientFrame(Cmd("Goodbye"))}
             /\ connection' = connection
             /\ to_client' = to_client
             /\ UNCHANGED <<command_channel, dispatched, response_channel, internal_bus,
                            seq_vars, broker_vars>>]_vars
    /\ [][(connection # Nil /\ connection' = Nil)
          => /\ connection_reader = "finished"
             /\ to_client' = Append(to_client, Eof)
             /\ UNCHANGED <<command_channel, dispatched, response_channel, internal_bus,
                            seq_vars, broker_vars>>]_vars
    /\ [][connection = Nil
          => /\ connection' = Nil
             /\ to_client' = to_client
             /\ delivered'["writer"] = delivered["writer"]]_vars
    /\ [](connection = Nil
          => (/\ to_client # <<>>
              /\ to_client[Len(to_client)] = Eof
              /\ (command_channel # <<>> /\ last = NoLast /\ command_processor = "running")
                    => ENABLED TakeExternal))

\* the peer sent Pause and then Goodbye; the connection was torn down while
\* Pause was still queued, so that the answer to it is on the response
\* channel and was never written to the connection
C22_Witness ==
    /\ to_server = ClientFrame(Cmd("Pause")) \o ClientFrame(Cmd("Goodbye"))
    /\ connection = Nil
    /\ connection_reader = "none"
    /\ TakenFrom(1) = <<Cmd("Pause")>>
    /\ response_channel = <<Send("remote", Nope(Cmd("Pause")), 1)>>
    /\ delivered["writer"] = <<>>
    /\ to_client = <<Eof>>

\* C23  Client handle drop: the step that drops the IPCClient of a process
\* leaves the dropped client with Goodbye at the tail of its outbound
\* command queue and with both of its tasks aborted.
C23_GoodbyeThenAbort ==
    [][\A p \in Procs :
          dropped_client'[p] # dropped_client[p]
              => /\ dropped_client'[p].queue = Append(ipc_client[p].queue, Cmd("Goodbye"))
                 /\ dropped_client'[p].reader = "aborted"
                 /\ dropped_client'[p].writer = "aborted"]_vars

\* C24  Every dispatch terminates: no call the broker makes on the
\* Sequencer waits for a lock that the same call holds, so no iteration
\* leaves the broker task waiting inside a call.
C24_EveryDispatchTerminates == call.res # "Hang" /\ command_processor # "hung"

\* C25  Disabling shuffle discards only the shuffled view: the
\* set_shuffle(false) the broker carries out for ShuffleQueue(false)
\* returns, leaves shuffle false and the canonical queue as it was, and
\* get_queue() on the broker's handle then returns that queue.
C25_UnshuffleKeepsQueue ==
    [][(/\ call = NoCall
        /\ call'.op = "set_shuffle"
        /\ ~last'.cmd.flag)
       => (/\ call'.res = "Ok"
           /\ ~sequencer'.shuffle
           /\ sequencer'.queue = sequencer.queue
           /\ get_queue(handle, sequencer') = sequencer.queue)]_vars

\* how often id occurs in the sequence
Occurrences(s, id) == Cardinality({i \in 1..Len(s) : s[i] = id})

\* the two sequences hold the same ids, each as often
SameMultiset(s, t) == \A id \in Ids : Occurrences(s, id) = Occurrences(t, id)

\* C26  Enabling shuffle materializes a permutation: from every state the
\* Sequencer reaches, whatever the length of the canonical queue and
\* whatever the random draws, set_shuffle(true) returns with shuffle on, the
\* canonical queue unchanged and a shuffled view of the same length and the
\* same multiset of ids, which is what get_queue() returns.
C26_ShuffleMaterializes ==
    call = NoCall =>
        \A draws \in Draws :
            LET o == set_shuffle(handle, sequencer, metadata_db, TRUE, draws)
                view == Shuffled(handle, o.seq)
            IN  /\ o.res = "Ok"
                /\ o.seq.shuffle
                /\ o.seq.queue = sequencer.queue
                /\ Len(view) = Len(sequencer.queue)
                /\ SameMultiset(view, sequencer.queue)
                /\ get_queue(handle, o.seq) = view


\* no id occurs twice in the sequence
DistinctIds(s) == \A i, j \in 1..Len(s) : i # j => s[i] # s[j]

\* C27  Shuffle reachability: for every canonical queue of n >= 2 distinct
\* ids the Sequencer reaches, every element e and every position p of it,
\* some choice of the random draws makes shuffle_queue put the element at e
\* into position p (for n = 2, both orders).
C27_ShuffleReachability ==
    LET queue == sequencer.queue
    IN  (Len(queue) >= 2 /\ DistinctIds(queue)) =>
            \A e, p \in 1..Len(queue) :
                \E draws \in Draws : shuffle_queue(queue, draws)[p] = queue[e]


\* a next() is called while the loop mode is None
NextCalledInNone ==
    /\ call = NoCall
    /\ call'.op = "next"
    /\ sequencer.loop_mode = "None"

\* the view next() takes its track from
ActiveView == IF sequencer.shuffle THEN Shuffled(handle, sequencer) ELSE sequencer.queue

\* next() took the head off the active view and, with shuffle on, one
\* occurrence of it out of the canonical queue
HeadRemoved ==
    LET h == Head(ActiveView)
    IN  /\ sequencer'.shuffle = sequencer.shuffle
        /\ sequencer'.song_backlog = sequencer.song_backlog
        /\ IF sequencer.shuffle
           THEN /\ Shuffled(handle, sequencer') = Tail(ActiveView)
                /\ IF h \in Range(sequencer.queue)
                   THEN \E k \in 1..Len(sequencer.queue) :
                            /\ sequencer.queue[k] = h
                            /\ sequencer'.queue = RemoveAt(sequencer.queue, k)
                   ELSE sequencer'.queue = sequencer.queue
           ELSE sequencer'.queue = Tail(sequencer.queue)

\* C28 as stated  next() with LoopMode None: with a non-empty active view
\* it removes the head h (with shuffle on, also one occurrence of h from
\* the canonical queue) and plays h, so playing = h; with an empty active
\* view it fails with NoSongsQueued and changes no state.
C28_NextNonePlaysHead ==
    [][NextCalledInNone =>
        IF Len(ActiveView) = 0
        THEN /\ call'.res = "NoSongsQueued"
             /\ sequencer' = sequencer
             /\ metadata_db' = metadata_db
        ELSE /\ HeadRemoved
             /\ call'.res = "Ok"
             /\ sequencer'.playing = Head(ActiveView)
             /\ get_playing(sequencer') = Head(ActiveView)]_vars

\* C28 as amended  next() with LoopMode None: with a non-empty active view
\* it removes the head h (with shuffle on, also one occurrence of h from
\* the canonical queue) and then plays h: when the play step succeeds,
\* playing = h, and when it fails next() returns its error
\* (MissingAudioFile or DecodingError) with h removed all the same and
\* playing as it was; with an empty active view it fails with
\* NoSongsQueued and changes no state.
C28_NextNonePopsHead ==
    [][NextCalledInNone =>
        IF Len(ActiveView) = 0
        THEN /\ call'.res = "NoSongsQueued"
             /\ sequencer' = sequencer
             /\ metadata_db' = metadata_db
        ELSE /\ HeadRemoved
             /\ call'.res \in {"Ok", "MissingAudioFile", "DecodingError"}
             /\ call'.res = "Ok" =>
                    /\ sequencer'.playing = Head(ActiveView)
                    /\ get_playing(sequencer') = Head(ActiveView)
             /\ call'.res # "Ok" =>
                    /\ sequencer'.playing = sequencer.playing
                    /\ sequencer'.paused = sequencer.paused]_vars

\* a next() in LoopMode None with shuffle on has just played the head of
\* the shuffled view, and another copy of that track is still queued
C28_Witness ==
    /\ call.op = "next"
    /\ call.res = "Ok"
    /\ sequencer.loop_mode = "None"
    /\ sequencer.shuffle
    /\ Len(sequencer.queue) = 2
    /\ Len(Shuffled(handle, sequencer)) = 2
    /\ sequencer.playing \in Range(sequencer.queue)


\* a next() is called while the loop mode is LoopQueue and shuffle is on
NextCalledInShuffledLoop ==
    /\ call = NoCall
    /\ call'.op = "next"
    /\ sequencer.loop_mode = "LoopQueue"
    /\ sequencer.shuffle

\* the call returned, and when its play step succeeded the track is playing
PlayedOrFailed(id) ==
    /\ call'.res \in {"Ok", "MissingAudioFile", "DecodingError"}
    /\ call'.res = "Ok" => sequencer'.playing = id

\* C29  next() with LoopMode LoopQueue and shuffle on: it pops the head of
\* the shuffled view and plays it, leaving the canonical queue unchanged;
\* with the shuffled view empty and the canonical queue not, the shuffled
\* view is first refilled with a permutation of the canonical queue, whose
\* head is then popped and played; NoSongsQueued is returned only when both
\* views are empty.  (The play step is held to playing = head only when it
\* succeeds.)
C29_ShuffledLoopRefills ==
    [][NextCalledInShuffledLoop =>
        LET view == Shuffled(handle, sequencer)
            queue == sequencer.queue
        IN  /\ sequencer'.queue = queue
            /\ call'.res = "NoSongsQueued" <=> (Len(view) = 0 /\ Len(queue) = 0)
            /\ Len(view) > 0 =>
                   /\ Shuffled(handle, sequencer') = Tail(view)
                   /\ PlayedOrFailed(Head(view))
            /\ (Len(view) = 0 /\ Len(queue) > 0) =>
                   \E k \in 1..Len(queue) :
                       /\ SameMultiset(Shuffled(handle, sequencer'), RemoveAt(queue, k))
                       /\ PlayedOrFailed(queue[k])]_vars


\* C30  next() with LoopMode LoopRecording: with playing = Some(t) the call
\* completes successfully with t started again and playing = Some(t), and
\* leaves the canonical queue, the shuffled view and the history as they
\* were; with playing = None it fails with NothingPlaying and changes no
\* state.  (A current track whose file cannot be retrieved or decoded is
\* allowed to fail in the play step.)
C30_LoopRecordingReplays ==
    [][(/\ call = NoCall
        /\ call'.op = "next"
        /\ sequencer.loop_mode = "LoopRecording")
       => IF sequencer.playing = NoId
          THEN /\ call'.res = "NothingPlaying"
               /\ sequencer' = sequencer
               /\ metadata_db' = metadata_db
          ELSE /\ call'.res \in {"Ok", "MissingAudioFile", "DecodingError"}
               /\ Playable(metadata_db, sequencer.playing) =>
                      /\ call'.res = "Ok"
                      /\ get_playing(sequencer') = sequencer.playing
               /\ sequencer'.playing = sequencer.playing
               /\ sequencer'.queue = sequencer.queue
               /\ sequencer'.shuffled_queue = sequencer.shuffled_queue
               /\ sequencer'.song_backlog = sequencer.song_backlog]_vars


\* C31  add_queue while shuffle is active: an add_queue(ids) called with
\* shuffle on returns, and the shuffled view is then a permutation of the
\* whole updated canonical queue: the old entries followed by the
\* retrievable ids of the call.
C31_AddQueueReshuffles ==
    [][(/\ call = NoCall
        /\ call'.op = "add_queue"
        /\ sequencer.shuffle)
       => LET ids == call'.ids
              good == SelectSeq(ids, LAMBDA id : Retrievable(metadata_db', id))
          IN  /\ call'.res = "Ok"
              /\ sequencer'.queue = sequencer.queue \o good
              /\ Len(Shuffled(handle, sequencer')) = Len(sequencer'.queue)
              /\ SameMultiset(Shuffled(handle, sequencer'), sequencer'.queue)]_vars


\* the relay's turn takes a command from the internal command bus
RelayTakesCommand ==
    /\ relay_last'.arm = "command"
    /\ UNCHANGED <<to_client, client_pos, client_lines, response_receiver>>
    /\ ipc_client'[1].reader = ipc_client[1].reader

\* C32  Relay command policy: every command the relay takes from the
\* internal bus, other than SetVolume and SetPermissions, joins the queue
\* of the link's outbound command sink behind those taken before it;
\* SendRecording (of a recording whose metadata is stored) and
\* SetPlaylistMetadata are written to the local MediaStore as well;
\* SetVolume sets the volume of the local device and SetPermissions
\* replaces the relay's permission list, and neither is forwarded.
C32_RelayCommandPolicy ==
    [][RelayTakesCommand =>
        LET command == relay_last'.item
            queue == ipc_client[1].queue
            forwarded == ipc_client'[1].queue = Append(queue, command)
        IN  CASE command.type = "SetVolume" ->
                     /\ sequencer'.volume = command.n
                     /\ ipc_client'[1].queue = queue
              [] command.type = "SetPermissions" ->
                     /\ remote_device_permissions' = command.perms
                     /\ ipc_client'[1].queue = queue
              [] command.type = "SendRecording" ->
                     /\ forwarded
                     /\ metadata_db[command.id].kind = "recording" =>
                            metadata_db'[command.id] = RecordingEntry(command.s)
              [] command.type = "SetPlaylistMetadata" ->
                     /\ forwarded
                     /\ \/ metadata_db'[command.id] = PlaylistEntry(command.s)
                        \/ playlist_db'[command.id] = PlaylistEntry(command.s)
              [] OTHER -> forwarded]_vars


\* the responses the client has read from the link, in the order read
ReadFromLink ==
    LET parsed == SelectSeq(client_lines, LAMBDA l : l.ok)
    IN  [i \in 1..Len(parsed) |-> parsed[i].m]

\* the responses republished on the internal bus, in order
Republished == [i \in 1..Len(internal_bus) |-> internal_bus[i].resp]

\* the relay's turn takes a response from the link
RelayTakesResponse ==
    /\ response_receiver # <<>>
    /\ response_receiver' = Tail(response_receiver)

\* C33  Relay response policy: the responses republished on the internal
\* bus, followed by those still waiting for the relay, are the responses
\* that arrived over the link, unchanged and in their order; and a turn of
\* the relay that takes a response from the link republishes it, writes a
\* RecordingFile to the local MediaStore only if the relay's permission
\* list holds Transfer (and then does, if the recording's metadata is
\* stored), a PlaylistMetadata if and only if the list holds Playlist, and
\* writes nothing for any other response.
C33_RelayResponsePolicy ==
    /\ [](Republished \o response_receiver = ReadFromLink)
    /\ [][RelayTakesResponse =>
            LET response == Head(response_receiver)
                id == response.c.id
            IN  /\ internal_bus' = Append(internal_bus, Send("internal", response, Nil))
                /\ CASE response.r = "RecordingFile" ->
                            /\ metadata_db' # metadata_db =>
                                   "Transfer" \in remote_device_permissions
                            /\ ("Transfer" \in remote_device_permissions
                                    /\ metadata_db[id].kind = "recording")
                               => metadata_db'[id] = RecordingEntry(response.c.s)
                     [] response.r = "PlaylistMetadata" ->
                            IF "Playlist" \in remote_device_permissions
                            THEN \/ metadata_db'[id] = PlaylistEntry(response.c.s)
                                 \/ playlist_db'[id] = PlaylistEntry(response.c.s)
                            ELSE metadata_db' = metadata_db
                     [] OTHER -> metadata_db' = metadata_db]_vars


\* what the broker sends when the origin of the last command asks for the
\* playlist `id` now
AnswerToPlaylistMetadata(id) ==
    Dispatch([cmd |-> [Cmd("PlaylistMetadata") EXCEPT !.id = id],
              uuid |-> last.uuid, internal |-> last.internal, h |-> handle,
              seq |-> sequencer, db |-> metadata_db, pdb |-> playlist_db,
              perms |-> current_user_permissions, net |-> FALSE, dev |-> TRUE,
              draws |-> [i \in 1..(MaxSeqQueue - 2) |-> 0]]).sent

\* C34  Playlist round-trip: once the broker has accepted
\* SetPlaylistMetadata(p) and set_playlist(p) has completed,
\* get_playlist(p.id) returns p, and a PlaylistMetadata(p.id) from the same
\* origin is answered with PlaylistMetadata(p), not Nope.
C34_PlaylistRoundTrip ==
    (last.cmd.type = "SetPlaylistMetadata" /\ call.op = "set_playlist") =>
        LET id == last.cmd.id
            name == last.cmd.s
        IN  /\ get_playlist(playlist_db, id) = [ok |-> TRUE, name |-> name]
            /\ AnswerToPlaylistMetadata(id) =
                   route_response(last.internal, PlaylistMetadataResp(id, name), last.uuid)


\* C35  Seek response: a Seek(p) that passes the permission check and that
\* the device accepts is answered with the response Seek(p), carrying the
\* position sought and routed with the nil token; one the device rejects
\* is answered with Nope(Seek(p)), routed to the origin only.
C35_SeekResponse ==
    [][(/\ last = NoLast
        /\ last'.cmd.type = "Seek"
        /\ call'.op = "seek")
       => LET p == last'.cmd.n
          IN  IF call'.res = "Ok"
              THEN sent' = route_response(last'.internal, SeekResp(p), Nil)
              ELSE sent' = route_response(last'.internal,
                                          Nope([Cmd("Seek") EXCEPT !.n = p]), last'.uuid)]_vars


\* C36  Paused state is derived: pause() leaves playing, the queue, the
\* shuffled view and the history as they are and makes get_playing()
\* return None; get_playing() returns Some(id) exactly when the device is
\* not paused and playing = Some(id); so an accepted Pause is answered
\* with NowPaused, and a successful Play(Some id) with NowPlaying(id)
\* followed by Queue(current view), both with the nil token.
C36_PausedIsDerived ==
    /\ LET o == pause(sequencer, metadata_db)
       IN  /\ o.seq.playing = sequencer.playing
           /\ o.seq.queue = sequencer.queue
           /\ o.seq.shuffled_queue = sequencer.shuffled_queue
           /\ o.seq.song_backlog = sequencer.song_backlog
           /\ get_playing(o.seq) = NoId
    /\ \A id \in Ids :
           get_playing(sequencer) = id <=> (~sequencer.paused /\ sequencer.playing = id)
    /\ (last.cmd.type = "Pause" /\ call.op = "pause") =>
           sent = route_response(last.internal, NowPaused, Nil)
    /\ (last.cmd.type = "Play" /\ last.cmd.flag /\ call.op = "play" /\ call.res = "Ok") =>
           sent = route_response(last.internal, NowPlaying(last.cmd.id), Nil)
                      \o route_response(last.internal,
                                        QueueResp(get_queue(handle, sequencer)), Nil)

\* an accepted Pause from a connection has just been answered while a
\* track that was started before is still the playing track
C36_Witness ==
    /\ last.cmd.type = "Pause"
    /\ ~last.internal
    /\ call.op = "pause"
    /\ sequencer.playing \in Ids
    /\ sequencer.paused
    /\ sent # <<>>


\* the first process has left EngineLocation::Internal and the runtime has
\* torn down every task that was aborted for it
ServerTornDown ==
    /\ location[1] # "Internal"
    /\ phase[1] = "idle"
    /\ listener.owner # 1
    /\ \A t \in tasks[1] : t.state # "aborted"

\* C38  Cancellation is complete: once the engine has left
\* EngineLocation::Internal and the aborted tasks are torn down, no task of
\* the old server runs any more: nothing is read from the connection it
\* had accepted, nothing is taken from the response channel for it and
\* nothing is written to it.
C38_CancellationComplete ==
    [][ServerTornDown =>
          /\ server_pos' = server_pos
          /\ connection_reader' = connection_reader
          /\ command_channel' = command_channel
          /\ delivered'["writer"] = delivered["writer"]
          /\ to_client' = to_client]_vars
\* the step is a connect call of process p that returns the result before
\* its take_mut::take
ReturnsEarly(p, result) ==
    /\ phase[p] # "installing"
    /\ returned' = Return(p, result)

\* the location of process p, its link, its tasks, its client and the
\* listener it serves are as before the step
EngineUnchanged(p) ==
    /\ location'[p] = location[p]
    /\ link'[p] = link[p]
    /\ pending'[p] = pending[p]
    /\ tasks'[p] = tasks[p]
    /\ ipc_client'[p] = ipc_client[p]
    /\ dropped_client'[p] = dropped_client[p]
    /\ (listener.owner = p /\ ~listener.aborted) => listener' = listener

\* C37  A failed connect leaves the topology unchanged: a connect_to_remote
\* that returns ConnectionFailed, and a connect_to_local that returns
\* StartFailed (which it does only when the endpoint can neither be bound
\* nor connected to), leave the location, the link, the tasks and the
\* client of the process as before the call; and connect_to_local returns
\* Ok before installing anything only from Internal or Local, changing
\* nothing.
C37_FailedConnectKeepsTopology ==
    [][\A p \in Procs :
          /\ ReturnsEarly(p, "ConnectionFailed") => EngineUnchanged(p)
          /\ ReturnsEarly(p, "StartFailed") =>
                 /\ EngineUnchanged(p)
                 /\ IPCServer_create(listener) # "Ok"
                 /\ IPCClient_create(listener') # "Ok"
          /\ ReturnsEarly(p, "Ok") =>
                 /\ location[p] \in {"Internal", "Local"}
                 /\ EngineUnchanged(p)]_vars

\* connect_to_local of a Remote engine has returned StartFailed, and the
\* engine is still Remote with its relay running
C37_Witness ==
    \E p \in Procs :
        /\ returned = Return(p, "StartFailed")
        /\ location[p] = "Remote"
        /\ Task("command_relay", "current") \in tasks[p]


\* C39  Failed navigation is atomic: a next() or previous() that returns a
\* SequencerError leaves the canonical queue, the shuffled view, the
\* history and playing exactly as they were before the call.
C39_FailedNavigationAtomic ==
    [][(/\ call = NoCall
        /\ call'.op \in {"next", "previous"}
        /\ Failed(call'.res))
       => /\ sequencer'.queue = sequencer.queue
          /\ sequencer'.shuffled_queue = sequencer.shuffled_queue
          /\ Shuffled(handle, sequencer') = Shuffled(handle, sequencer)
          /\ sequencer'.song_backlog = sequencer.song_backlog
          /\ sequencer'.playing = sequencer.playing]_vars

\* C40  shuffle_queue is total on short queues: no set_shuffle unwinds on
\* the loop bound len - 2 or on the modulus len - i, whatever the length
\* of the queue, and a set_shuffle(true) that returns on a queue of length
\* 0 or 1 leaves the shuffled view equal to that queue.
C40_ShuffleTotalOnShortQueues ==
    [][(/\ call = NoCall
        /\ call'.op = "set_shuffle")
       => /\ call'.res # "Panic"
          /\ (Len(sequencer.queue) < 2 /\ call'.res = "Ok" /\ sequencer'.shuffle)
                 => Shuffled(handle, sequencer') = sequencer.queue]_vars
====
